---- MODULE Spec2Model ----
(***************************************************************************)
(* Verification model of the OAuth grant-flow serializer of graph-rs-sdk    *)
(* (graph-oauth/src/auth.rs): the credential store OAuthSerializer, the     *)
(* pre-request normalisation, the encoders and the grant handles.           *)
(***************************************************************************)
EXTENDS Integers, Sequences, FiniteSets, TLC

(***************************************************************************)
(* Bounds of the model.                                                     *)
(***************************************************************************)
\* number of distinct plain credential values "v1", "v2", ...
NumValues == 2
\* number of distinct scope strings "s1", "s2", ...
NumScopes == 1
\* number of grant handles built side by side from one serializer
MaxHandles == 2
\* the largest expires_in a token is given, in seconds
MaxExpiresIn == 2
\* the clock value at which the clock stops
MaxTime == 4

(***************************************************************************)
(* Option and Result values of the Rust code.                               *)
(***************************************************************************)
None == <<>>
Some(v) == <<v>>
IsSome(o) == o # None
Unwrap(o) == o[1]

Ok(v) == [ok |-> TRUE, val |-> v]
Err(e) == [ok |-> FALSE, err |-> e]

(***************************************************************************)
(* OAuthParameter and its wire alias.                                       *)
(***************************************************************************)
OAuthParameter ==
    { "ClientId", "ClientSecret", "AuthorizationUrl", "AccessTokenUrl",
      "RefreshTokenUrl", "RedirectUri", "AuthorizationCode", "AccessToken",
      "RefreshToken", "ResponseMode", "State", "SessionState", "ResponseType",
      "GrantType", "Nonce", "Prompt", "IdToken", "Resource", "DomainHint",
      "Scope", "LoginHint", "ClientAssertion", "ClientAssertionType",
      "CodeVerifier", "CodeChallenge", "CodeChallengeMethod",
      "PostLogoutRedirectURI", "LogoutURL", "AdminConsent", "Username",
      "Password", "DeviceCode" }

alias(p) ==
    CASE p = "ClientId" -> "client_id"
      [] p = "ClientSecret" -> "client_secret"
      [] p = "AuthorizationUrl" -> "authorization_url"
      [] p = "AccessTokenUrl" -> "access_token_url"
      [] p = "RefreshTokenUrl" -> "refresh_token_url"
      [] p = "RedirectUri" -> "redirect_uri"
      [] p = "AuthorizationCode" -> "code"
      [] p = "AccessToken" -> "access_token"
      [] p = "RefreshToken" -> "refresh_token"
      [] p = "ResponseMode" -> "response_mode"
      [] p = "ResponseType" -> "response_type"
      [] p = "State" -> "state"
      [] p = "SessionState" -> "session_state"
      [] p = "GrantType" -> "grant_type"
      [] p = "Nonce" -> "nonce"
      [] p = "Prompt" -> "prompt"
      [] p = "IdToken" -> "id_token"
      [] p = "Resource" -> "resource"
      [] p = "DomainHint" -> "domain_hint"
      [] p = "Scope" -> "scope"
      [] p = "LoginHint" -> "login_hint"
      [] p = "ClientAssertion" -> "client_assertion"
      [] p = "ClientAssertionType" -> "client_assertion_type"
      [] p = "CodeVerifier" -> "code_verifier"
      [] p = "CodeChallenge" -> "code_challenge"
      [] p = "CodeChallengeMethod" -> "code_challenge_method"
      [] p = "LogoutURL" -> "logout_url"
      [] p = "PostLogoutRedirectURI" -> "post_logout_redirect_uri"
      [] p = "AdminConsent" -> "admin_consent"
      [] p = "Username" -> "username"
      [] p = "Password" -> "password"
      [] p = "DeviceCode" -> "device_code"

\* the parameters whose value insert / entry_with pass through Url::parse
UrlTyped ==
    { "RefreshTokenUrl", "PostLogoutRedirectURI", "AccessTokenUrl",
      "AuthorizationUrl", "LogoutURL" }

(***************************************************************************)
(* Strings the model feeds to the program, and Url::parse on them.          *)
(***************************************************************************)
Values == { "v" \o ToString(i) : i \in 1..NumValues }
ScopeSeq == [ i \in 1..NumScopes |-> "s" \o ToString(i) ]
ScopeNames == { ScopeSeq[i] : i \in 1..NumScopes }

AuthUrl == "https://login.example.com/authorize"
AuthUrlWithQuery == "https://login.example.com/authorize?client_id=preset"
TokenUrl == "https://login.example.com/token"
NotAUrl == "not a url"

\* Authority::default().as_ref() and AzureAuthorityHost::default().as_ref()
AuthorityDefault == "common"
AuthorityHostDefault == "https://login.microsoftonline.com"

\* format!("{}/{}/oauth2/v2.0/authorize", host, authority) and the token URL
AuthorizeEndpoint(host, a) == host \o "/" \o a \o "/oauth2/v2.0/authorize"
TokenEndpoint(host, a) == host \o "/" \o a \o "/oauth2/v2.0/token"

\* the endpoints of the default authority, absolute URLs
AuthorityEndpoints ==
    { AuthorizeEndpoint(AuthorityHostDefault, AuthorityDefault),
      TokenEndpoint(AuthorityHostDefault, AuthorityDefault) }

\* Url::parse: an absolute URL is split into the part before the query and
\* the query pairs; anything without a scheme is a parse error.
url_parse(v) ==
    CASE v = AuthUrl -> Ok([base |-> AuthUrl, query |-> <<>>])
      [] v = AuthUrlWithQuery ->
            Ok([base |-> AuthUrl, query |-> << <<"client_id", "preset">> >>])
      [] v = TokenUrl -> Ok([base |-> TokenUrl, query |-> <<>>])
      [] v \in AuthorityEndpoints -> Ok([base |-> v, query |-> <<>>])
      [] OTHER -> Err([kind |-> "url_parse", what |-> v])

(***************************************************************************)
(* OAuthSerializer: the credential store.                                   *)
(***************************************************************************)
\* OAuthSerializer::new
new == [access_token |-> None, scopes |-> {}, credentials |-> << >>]

MapInsert(m, k, v) == [a \in DOMAIN m \cup {k} |-> IF a = k THEN v ELSE m[a]]
MapRemove(m, k) == [a \in DOMAIN m \ {k} |-> m[a]]

\* a call either returns or panics; the store after a panic is the store the
\* unwinding leaves behind
Returned(s, v) == [panic |-> FALSE, store |-> s, val |-> v]
Panicked(s) == [panic |-> TRUE, store |-> s, val |-> None]

\* an insert that keeps the value a parameter already has
insert_keep_existing(s, oac, v) ==
    IF oac \in UrlTyped /\ ~url_parse(v).ok
    THEN Panicked(s)
    ELSE IF alias(oac) \in DOMAIN s.credentials
         THEN Returned(s, None)
         ELSE Returned([s EXCEPT !.credentials = MapInsert(@, alias(oac), v)], None)

insert(s, oac, v) ==
    IF oac \in UrlTyped /\ ~url_parse(v).ok
    THEN Panicked(s)
    ELSE Returned([s EXCEPT !.credentials = MapInsert(@, alias(oac), v)], None)

entry_with_overwrite(s, oac, v) ==
    IF oac \in UrlTyped /\ ~url_parse(v).ok
    THEN Panicked(s)
    ELSE Returned([s EXCEPT !.credentials = MapInsert(@, alias(oac), v)], v)

entry_with(s, oac, v) ==
    IF oac \in UrlTyped /\ ~url_parse(v).ok
    THEN Panicked(s)
    ELSE IF alias(oac) \in DOMAIN s.credentials
         THEN Returned(s, s.credentials[alias(oac)])
         ELSE Returned([s EXCEPT !.credentials = MapInsert(@, alias(oac), v)], v)

get(s, oac) ==
    IF alias(oac) \in DOMAIN s.credentials
    THEN Some(s.credentials[alias(oac)])
    ELSE None

contains(s, t) ==
    IF t = "Scope" THEN s.scopes # {} ELSE alias(t) \in DOMAIN s.credentials

contains_key(s, key) == key \in DOMAIN s.credentials

remove(s, oac) == [s EXCEPT !.credentials = MapRemove(@, alias(oac))]

add_scope(s, scope) == [s EXCEPT !.scopes = @ \cup {scope}]
remove_scope(s, scope) == [s EXCEPT !.scopes = @ \ {scope}]
clear_scopes(s) == [s EXCEPT !.scopes = {}]

\* the scopes in the BTreeSet's (sorted) order
ScopeList(s) == SelectSeq(ScopeSeq, LAMBDA x : x \in s.scopes)

RECURSIVE Join(_, _)
Join(seq, sep) ==
    IF seq = <<>> THEN ""
    ELSE IF Len(seq) = 1 THEN seq[1]
    ELSE seq[1] \o sep \o Join(Tail(seq), sep)

join_scopes(s, sep) == Join(ScopeList(s), sep)

\* MsalTokenResponse as the serializer uses it: only refresh_token is read
Token(rt) == [refresh_token |-> rt]

\* OAuthSerializer::access_token(ac): store a token response
access_token(s, ac) ==
    LET s1 == IF IsSome(ac.refresh_token)
              THEN insert(s, "RefreshToken", Unwrap(ac.refresh_token)).store
              ELSE s
    IN [s1 EXCEPT !.access_token = Some(ac)]

get_access_token(s) == s.access_token

\* the fluent setter of p: oauth.refresh_token(v), oauth.authorization_url(v)
setter(s, p, v) == insert(s, p, v)

\* if let Some(v) = o { oauth.<p>(v) }: the store after the setter, if called
Configure(s, p, o) == IF o = None THEN s ELSE setter(s, p, Unwrap(o)).store

error_from(oac) == [kind |-> "credential_missing", what |-> alias(oac)]
credential_error(oac) == [kind |-> "credential_missing", what |-> alias(oac)]
required(name) == [kind |-> "required_value_missing", what |-> name]
grant_error(grant, req) ==
    [kind |-> "grant_not_supported", what |-> <<grant, req>>]

\* a get_refresh_token that reads the store only
get_refresh_token_store_only(s) ==
    IF IsSome(get(s, "RefreshToken")) THEN Ok(Unwrap(get(s, "RefreshToken")))
    ELSE Err(error_from("RefreshToken"))

get_refresh_token(s) ==
    IF IsSome(get(s, "RefreshToken")) THEN Ok(Unwrap(get(s, "RefreshToken")))
    ELSE IF IsSome(get_access_token(s))
         THEN IF IsSome(Unwrap(get_access_token(s)).refresh_token)
              THEN Ok(Unwrap(Unwrap(get_access_token(s)).refresh_token))
              ELSE Err(error_from("RefreshToken"))
         ELSE Err(error_from("RefreshToken"))

get_or_else(s, c) ==
    IF IsSome(get(s, c)) THEN Ok(Unwrap(get(s, c))) ELSE Err(credential_error(c))

(***************************************************************************)
(* The encoders.  An encoder's content is the sequence of the (name, value) *)
(* pairs appended to it; a form map is a function from alias to value.      *)
(***************************************************************************)
RECURSIVE form_encode_credentials(_, _)
form_encode_credentials(s, pairs) ==
    IF pairs = <<>> THEN <<>>
    ELSE LET oac == Head(pairs)
             rest == form_encode_credentials(s, Tail(pairs))
         IN IF ~(contains_key(s, alias(oac)) \/ alias(oac) = "scope") THEN rest
            ELSE IF alias(oac) = "scope" /\ s.scopes # {}
                 THEN << <<"scope", join_scopes(s, " ")>> >> \o rest
            ELSE IF IsSome(get(s, oac))
                 THEN << <<alias(oac), Unwrap(get(s, oac))>> >> \o rest
            ELSE rest

RECURSIVE EncodeOptional(_, _)
EncodeOptional(s, fields) ==
    IF fields = <<>> THEN <<>>
    ELSE LET parameter == Head(fields)
             rest == EncodeOptional(s, Tail(fields))
         IN IF alias(parameter) = "scope" /\ s.scopes # {}
            THEN << <<"scope", join_scopes(s, " ")>> >> \o rest
            ELSE IF IsSome(get(s, parameter))
                 THEN << <<alias(parameter), Unwrap(get(s, parameter))>> >> \o rest
            ELSE rest

\* one turn of the required loop of encode_query on the parameter
RequiredPair(s, parameter) ==
    IF alias(parameter) = "scope"
    THEN IF s.scopes = {}
         THEN Err(required(alias(parameter)))
         ELSE Ok(<<"scope", join_scopes(s, " ")>>)
    ELSE IF get(s, parameter) = None
         THEN Err(required(alias(parameter)))
         ELSE Ok(<<alias(parameter), Unwrap(get(s, parameter))>>)

\* the required loop of encode_query: acc is what the encoder holds so far
RECURSIVE EncodeRequired(_, _, _)
EncodeRequired(s, fields, acc) ==
    IF fields = <<>> THEN [ok |-> TRUE, pairs |-> acc]
    ELSE LET pair == RequiredPair(s, Head(fields))
         IN IF ~pair.ok
            THEN [ok |-> FALSE, pairs |-> acc, err |-> pair.err]
            ELSE EncodeRequired(s, Tail(fields), Append(acc, pair.val))

\* an encode_query that appends the optional pairs before the required ones
encode_query_optional_first(s, optional_fields, required_fields) ==
    LET req == EncodeRequired(s, required_fields, <<>>)
    IN IF ~req.ok THEN req
       ELSE [ok |-> TRUE, pairs |-> EncodeOptional(s, optional_fields) \o req.pairs]

encode_query(s, optional_fields, required_fields) ==
    LET req == EncodeRequired(s, required_fields, <<>>)
    IN IF ~req.ok THEN req
       ELSE [ok |-> TRUE, pairs |-> req.pairs \o EncodeOptional(s, optional_fields)]

\* map.insert(key, r?): the error of r, or the map with its value
InsertOrFail(map, key, r) ==
    IF r.ok THEN Ok(MapInsert(map, key, r.val)) ELSE Err(r.err)

\* one turn of the loop of params: the map after the parameter oac
ParamsInsert(s, oac, map) ==
    IF oac = "RefreshToken"
    THEN IF IsSome(get(s, oac))
         THEN Ok(MapInsert(map, alias(oac), Unwrap(get(s, oac))))
         ELSE InsertOrFail(map, "refresh_token", get_refresh_token(s))
    ELSE IF alias(oac) = "scope" /\ s.scopes # {}
         THEN Ok(MapInsert(map, "scope", join_scopes(s, " ")))
    ELSE IF IsSome(get(s, oac))
         THEN Ok(MapInsert(map, alias(oac), Unwrap(get(s, oac))))
    ELSE Ok(map)

RECURSIVE ParamsFrom(_, _, _)
ParamsFrom(s, pairs, map) ==
    IF pairs = <<>> THEN Ok(map)
    ELSE LET next == ParamsInsert(s, Head(pairs), map)
         IN IF ~next.ok THEN next ELSE ParamsFrom(s, Tail(pairs), next.val)

\* a turn of the loop that treats RefreshToken like any other listed field
ParamsInsertPlain(s, oac, map) ==
    IF alias(oac) = "scope" /\ s.scopes # {}
    THEN MapInsert(map, "scope", join_scopes(s, " "))
    ELSE IF IsSome(get(s, oac))
         THEN MapInsert(map, alias(oac), Unwrap(get(s, oac)))
    ELSE map

RECURSIVE ParamsPlain(_, _, _)
ParamsPlain(s, pairs, map) ==
    IF pairs = <<>> THEN Ok(map)
    ELSE ParamsPlain(s, Tail(pairs), ParamsInsertPlain(s, Head(pairs), map))

params_no_fallback(s, pairs) == ParamsPlain(s, pairs, << >>)

params(s, pairs) == ParamsFrom(s, pairs, << >>)

(***************************************************************************)
(* Grant types, request phases and the grant table.                         *)
(***************************************************************************)
GrantType ==
    { "TokenFlow", "CodeFlow", "AuthorizationCode", "Implicit", "DeviceCode",
      "OpenId", "ClientCredentials", "ResourceOwnerPasswordCredentials" }

GrantRequest == { "Authorization", "AccessToken", "RefreshToken" }

\* GrantType::available_credentials: the fields of each (grant, phase) pair
\* in declaration order (the table is declared in the grants module)
available_credentials(grant, req) ==
    CASE grant = "TokenFlow" ->
            IF req = "Authorization"
            THEN <<"ClientId", "RedirectUri", "ResponseType", "Scope">>
            ELSE <<>>
      [] grant = "CodeFlow" ->
            (CASE req = "Authorization" ->
                    <<"ClientId", "RedirectUri", "State", "ResponseType", "Scope">>
              [] req = "AccessToken" ->
                    <<"ClientId", "ClientSecret", "RedirectUri", "ResponseType",
                      "GrantType", "AuthorizationCode">>
              [] req = "RefreshToken" ->
                    <<"ClientId", "ClientSecret", "RedirectUri", "GrantType",
                      "AuthorizationCode", "RefreshToken">>)
      [] grant = "AuthorizationCode" ->
            (CASE req = "Authorization" ->
                    <<"ClientId", "RedirectUri", "State", "ResponseMode",
                      "ResponseType", "Scope", "Prompt", "DomainHint",
                      "LoginHint", "CodeChallenge", "CodeChallengeMethod">>
              [] req = "AccessToken" ->
                    <<"ClientId", "ClientSecret", "RedirectUri",
                      "AuthorizationCode", "Scope", "GrantType", "CodeVerifier">>
              [] req = "RefreshToken" ->
                    <<"ClientId", "ClientSecret", "RefreshToken", "GrantType",
                      "Scope">>)
      [] grant = "Implicit" ->
            IF req = "Authorization"
            THEN <<"ClientId", "RedirectUri", "Scope", "ResponseType",
                   "ResponseMode", "State", "Nonce", "Prompt", "LoginHint",
                   "DomainHint">>
            ELSE <<>>
      [] grant = "OpenId" ->
            (CASE req = "Authorization" ->
                    <<"ClientId", "ResponseType", "RedirectUri", "ResponseMode",
                      "Scope", "State", "Nonce", "Prompt", "LoginHint",
                      "DomainHint", "Resource">>
              [] req = "AccessToken" ->
                    <<"ClientId", "ClientSecret", "RedirectUri", "GrantType",
                      "Scope", "AuthorizationCode", "CodeVerifier">>
              [] req = "RefreshToken" ->
                    <<"ClientId", "ClientSecret", "RefreshToken", "GrantType",
                      "Scope">>)
      [] grant = "ClientCredentials" ->
            IF req = "Authorization"
            THEN <<"ClientId", "RedirectUri", "State">>
            ELSE <<"ClientId", "ClientSecret", "GrantType", "Scope",
                   "ClientAssertion", "ClientAssertionType">>
      [] grant = "ResourceOwnerPasswordCredentials" ->
            IF req = "Authorization"
            THEN <<>>
            ELSE <<"ClientId", "GrantType", "Username", "Password", "Scope",
                   "RedirectUri", "ClientAssertion">>
      [] grant = "DeviceCode" ->
            (CASE req = "Authorization" -> <<"ClientId", "Scope">>
              [] req = "AccessToken" -> <<"GrantType", "ClientId", "DeviceCode">>
              [] req = "RefreshToken" ->
                    <<"ClientId", "Scope", "GrantType", "RefreshToken">>)

(***************************************************************************)
(* Pre-request normalisation: the fixed fields injected with entry_with.    *)
(***************************************************************************)
DeviceCodeUrn == "urn:ietf:params:oauth:grant-type:device_code"

\* entry_with on a fixed, non-URL field: the store it leaves
Inject(s, oac, v) == entry_with(s, oac, v).store

\* a normalisation that injects refresh_token in every RefreshToken phase
pre_request_check_uniform(s, grant, request_type) ==
    IF request_type = "RefreshToken" /\ grant \notin {"TokenFlow", "Implicit"}
    THEN Inject(s, "GrantType", "refresh_token")
    ELSE IF request_type = "AccessToken"
              /\ grant \in {"CodeFlow", "AuthorizationCode", "OpenId"}
    THEN Inject(s, "GrantType", "authorization_code")
    ELSE s

pre_request_check(s, grant, request_type) ==
    CASE grant = "TokenFlow" ->
            IF request_type = "Authorization"
            THEN Inject(s, "ResponseType", "token")
            ELSE s
      [] grant = "CodeFlow" ->
            (CASE request_type = "Authorization" ->
                    Inject(Inject(s, "ResponseType", "code"), "ResponseMode", "query")
              [] request_type = "AccessToken" ->
                    Inject(Inject(s, "ResponseType", "token"),
                           "GrantType", "authorization_code")
              [] request_type = "RefreshToken" ->
                    Inject(s, "GrantType", "refresh_token"))
      [] grant = "AuthorizationCode" ->
            (CASE request_type = "Authorization" ->
                    Inject(Inject(s, "ResponseType", "code"), "ResponseMode", "query")
              [] request_type = "AccessToken" ->
                    Inject(s, "GrantType", "authorization_code")
              [] request_type = "RefreshToken" ->
                    Inject(s, "GrantType", "refresh_token"))
      [] grant = "Implicit" ->
            IF request_type = "Authorization" /\ s.scopes # {}
            THEN Inject(s, "ResponseType", "token")
            ELSE s
      [] grant = "DeviceCode" ->
            IF request_type = "AccessToken"
            THEN Inject(s, "GrantType", DeviceCodeUrn)
            ELSE IF request_type = "RefreshToken"
                 THEN Inject(s, "GrantType", "refresh_token")
                 ELSE s
      [] grant = "OpenId" ->
            IF request_type = "AccessToken"
            THEN Inject(s, "GrantType", "authorization_code")
            ELSE IF request_type = "RefreshToken"
                 THEN Inject(s, "GrantType", "refresh_token")
                 ELSE s
      [] grant = "ClientCredentials" ->
            IF request_type = "AccessToken" \/ request_type = "RefreshToken"
            THEN Inject(s, "GrantType", "client_credentials")
            ELSE s
      [] grant = "ResourceOwnerPasswordCredentials" ->
            IF request_type = "RefreshToken"
            THEN Inject(s, "GrantType", "refresh_token")
            ELSE Inject(s, "GrantType", "password")

(***************************************************************************)
(* encode_uri: the result is a URI (the stored authorization URL and the    *)
(* appended pairs) or a form body (the pairs).                              *)
(***************************************************************************)
\* the Authorization arm shared by all grants: url, '?' unless it ends with
\* one, then the encoder's pairs
UriOf(url, pairs) ==
    IF ~url.ok THEN Err(url.err)
    ELSE Ok([shape |-> "uri", url |-> url.val, pairs |-> pairs])

EncodeAuthorization(s, grant) ==
    [store |-> s,
     res |-> UriOf(get_or_else(s, "AuthorizationUrl"),
                   form_encode_credentials(s,
                       available_credentials(grant, "Authorization")))]

EncodeForm(s, table_grant, table_req) ==
    [store |-> s,
     res |-> Ok([shape |-> "form",
                 pairs |-> form_encode_credentials(s,
                              available_credentials(table_grant, table_req))])]

\* an encode_uri that serves every phase of every grant from the table
encode_uri_no_reject(s, grant, request_type) ==
    IF request_type = "Authorization"
    THEN EncodeAuthorization(pre_request_check(s, grant, request_type), grant)
    ELSE EncodeForm(pre_request_check(s, grant, request_type), grant, request_type)

encode_uri(s, grant, request_type) ==
    CASE grant = "TokenFlow" ->
            IF request_type = "Authorization"
            THEN EncodeAuthorization(Inject(s, "ResponseType", "token"), grant)
            ELSE [store |-> s, res |-> Err(grant_error("TokenFlow", "AccessToken"))]
      [] grant = "CodeFlow" ->
            (CASE request_type = "Authorization" ->
                    EncodeAuthorization(
                        Inject(Inject(s, "ResponseType", "code"),
                               "ResponseMode", "query"), grant)
              [] request_type = "AccessToken" ->
                    EncodeForm(Inject(Inject(s, "ResponseType", "token"),
                                      "GrantType", "authorization_code"),
                               grant, request_type)
              [] request_type = "RefreshToken" ->
                    EncodeForm(Inject(s, "GrantType", "refresh_token"),
                               grant, request_type))
      [] grant = "AuthorizationCode" ->
            (CASE request_type = "Authorization" ->
                    EncodeAuthorization(
                        Inject(Inject(s, "ResponseType", "code"),
                               "ResponseMode", "query"), grant)
              [] request_type = "AccessToken" ->
                    EncodeForm(Inject(s, "GrantType", "authorization_code"),
                               grant, request_type)
              [] request_type = "RefreshToken" ->
                    EncodeForm(Inject(s, "GrantType", "refresh_token"),
                               grant, request_type))
      [] grant = "Implicit" ->
            IF request_type = "Authorization"
            THEN EncodeAuthorization(
                     IF s.scopes # {} THEN Inject(s, "ResponseType", "token") ELSE s,
                     grant)
            ELSE [store |-> s, res |-> Err(grant_error("Implicit", "AccessToken"))]
      [] grant = "DeviceCode" ->
            (CASE request_type = "Authorization" -> EncodeAuthorization(s, grant)
              [] request_type = "AccessToken" ->
                    EncodeForm(Inject(s, "GrantType", DeviceCodeUrn),
                               grant, "AccessToken")
              [] request_type = "RefreshToken" ->
                    EncodeForm(Inject(s, "GrantType", "refresh_token"),
                               grant, "AccessToken"))
      [] grant = "OpenId" ->
            (CASE request_type = "Authorization" -> EncodeAuthorization(s, grant)
              [] request_type = "AccessToken" ->
                    EncodeForm(Inject(s, "GrantType", "authorization_code"),
                               grant, request_type)
              [] request_type = "RefreshToken" ->
                    EncodeForm(Inject(s, "GrantType", "refresh_token"),
                               grant, request_type))
      [] grant = "ClientCredentials" ->
            IF request_type = "Authorization"
            THEN EncodeAuthorization(s, grant)
            ELSE EncodeForm(pre_request_check(s, grant, request_type),
                            grant, request_type)
      [] grant = "ResourceOwnerPasswordCredentials" ->
            EncodeForm(pre_request_check(s, grant, request_type),
                       grant, request_type)

(***************************************************************************)
(* Grant handles and the request descriptors they build.                    *)
(***************************************************************************)
\* the handle type a GrantSelector method returns for a grant
HandleType(grant) ==
    CASE grant \in {"TokenFlow", "Implicit"} -> "ImplicitGrant"
      [] grant = "DeviceCode" -> "DeviceCodeGrant"
      [] OTHER -> "AccessTokenGrant"

\* OAuthSerializer::build followed by the selector method of the grant
build(s, grant) == [oauth |-> s, grant |-> grant]

\* the orders in which a HashMap with these entries can be iterated: every
\* sequence that names each key once
IterationOrders(map) ==
    LET n == Cardinality(DOMAIN map)
    IN { order \in [1..n -> DOMAIN map] :
            \A i, j \in 1..n : order[i] = order[j] => i = j }

\* url.query_pairs_mut().extend_pairs(map), the map iterated in this order
extend_pairs(url, map, order) ==
    [url EXCEPT !.query = @ \o [i \in 1..Len(order) |-> <<order[i], map[order[i]]>>]]

NoUrl == [base |-> "", query |-> <<>>]

\* the handle a method leaves behind: its serializer is the normalised one
Normalised(h, s1) == [h EXCEPT !.oauth = s1]

\* Url::parse(get_or_else(AuthorizationUrl)?)?
ParseStored(raw) == IF ~raw.ok THEN Err(raw.err) ELSE url_parse(raw.val)

\* the tail of authorization_url: the form map pm (or its error), then the
\* stored URL parsed (or its error), then the pairs appended in this order
UrlWithPairs(pm, url, order) ==
    IF ~pm.ok THEN Err(pm.err)
    ELSE IF ~url.ok THEN Err(url.err)
    ELSE Ok(extend_pairs(url.val, pm.val, order))

\* authorization_url on the store s1 that pre_request_check left
AuthorizationUrlFrom(h, s1, order) ==
    [handle |-> Normalised(h, s1),
     res |-> UrlWithPairs(params(s1, available_credentials(h.grant, "Authorization")),
                          ParseStored(get_or_else(s1, "AuthorizationUrl")),
                          order)]

\* AccessTokenGrant::authorization_url and DeviceCodeGrant::authorization_url
authorization_url(h, order) ==
    AuthorizationUrlFrom(h, pre_request_check(h.oauth, h.grant, "Authorization"), order)

\* the orders a form map (or nothing, on error) can be iterated in
OrdersOf(pm) == IF pm.ok THEN IterationOrders(pm.val) ELSE { <<>> }

\* the orders authorization_url can iterate its form map in
AuthorizationOrders(h) ==
    OrdersOf(params(pre_request_check(h.oauth, h.grant, "Authorization"),
                    available_credentials(h.grant, "Authorization")))

AuthorizationRequest(uri, error) ==
    [type |-> "AuthorizationRequest", uri |-> uri, params |-> << >>, error |-> error]

AccessTokenRequest(uri, pm, error) ==
    [type |-> "AccessTokenRequest", uri |-> uri, params |-> pm, error |-> error]

\* the request browser_authorization makes of a URL result
RequestOfUrl(res) ==
    IF ~res.ok THEN AuthorizationRequest(NoUrl, Some(res.err))
    ELSE AuthorizationRequest(res.val, None)

RequestOf(u) == [handle |-> u.handle, req |-> RequestOfUrl(u.res)]

\* AccessTokenGrant::browser_authorization
browser_authorization(h, order) == RequestOf(authorization_url(h, order))

ImplicitUrlFrom(h, s1) ==
    [handle |-> Normalised(h, s1),
     res |-> ParseStored(get_or_else(s1, "AuthorizationUrl"))]

\* ImplicitGrant::url
implicit_url(h) ==
    ImplicitUrlFrom(h, pre_request_check(h.oauth, h.grant, "Authorization"))

\* browser_authorization of an ImplicitGrant once the form map pm (or its
\* error) is at hand: url() is not called when pm is an error
ImplicitRequest(h, pm, u, order) ==
    IF ~pm.ok
    THEN [handle |-> h, req |-> AuthorizationRequest(NoUrl, Some(pm.err))]
    ELSE [handle |-> u.handle, req |-> RequestOfUrl(UrlWithPairs(pm, u.res, order))]

\* ImplicitGrant::browser_authorization: the form map is taken before url()
\* runs the normalisation
implicit_browser_authorization(h, order) ==
    ImplicitRequest(h, params(h.oauth, available_credentials(h.grant, "Authorization")),
                    implicit_url(h), order)

ImplicitOrders(h) ==
    OrdersOf(params(h.oauth, available_credentials(h.grant, "Authorization")))

\* the request a token method returns: the endpoint's error first, then the
\* form map's
TokenRequestOf(uri, pm) ==
    IF ~uri.ok THEN AccessTokenRequest("", << >>, Some(uri.err))
    ELSE IF ~pm.ok THEN AccessTokenRequest("", << >>, Some(pm.err))
    ELSE AccessTokenRequest(uri.val, pm.val, None)

TokenRequestFrom(h, s1, phase, url_parameter) ==
    [handle |-> Normalised(h, s1),
     req |-> TokenRequestOf(get_or_else(s1, url_parameter),
                            params(s1, available_credentials(h.grant, phase)))]

\* the body shared by authorization(), access_token() and refresh_token()
\* of AccessTokenGrant and DeviceCodeGrant
TokenRequest(h, phase, url_parameter) ==
    TokenRequestFrom(h, pre_request_check(h.oauth, h.grant, phase), phase, url_parameter)

device_authorization(h) == TokenRequest(h, "Authorization", "AuthorizationUrl")
grant_access_token(h) == TokenRequest(h, "AccessToken", "AccessTokenUrl")
grant_refresh_token(h) == TokenRequest(h, "RefreshToken", "RefreshTokenUrl")

\* the descriptors of the non-blocking handles
AsyncAccessTokenRequest(uri, pm, error) ==
    [type |-> "AsyncAccessTokenRequest", uri |-> uri, params |-> pm, error |-> error]

AsyncTokenRequestOf(uri, pm) ==
    IF ~uri.ok THEN AsyncAccessTokenRequest("", << >>, Some(uri.err))
    ELSE IF ~pm.ok THEN AsyncAccessTokenRequest("", << >>, Some(pm.err))
    ELSE AsyncAccessTokenRequest(uri.val, pm.val, None)

AsyncTokenRequestFrom(h, s1, phase, url_parameter) ==
    [handle |-> Normalised(h, s1),
     req |-> AsyncTokenRequestOf(get_or_else(s1, url_parameter),
                                 params(s1, available_credentials(h.grant, phase)))]

\* AsyncAccessTokenGrant::authorization_url and
\* AsyncDeviceCodeGrant::authorization_url
async_authorization_url(h, order) ==
    AuthorizationUrlFrom(h, pre_request_check(h.oauth, h.grant, "Authorization"), order)

\* AsyncAccessTokenGrant::access_token and AsyncDeviceCodeGrant::access_token
async_access_token(h) ==
    AsyncTokenRequestFrom(h, pre_request_check(h.oauth, h.grant, "AccessToken"),
                          "AccessToken", "AccessTokenUrl")

\* a refresh_token() that builds the request of the AccessToken phase
async_refresh_token_as_access_token(h) ==
    AsyncTokenRequestFrom(h, pre_request_check(h.oauth, h.grant, "AccessToken"),
                          "AccessToken", "AccessTokenUrl")

\* AsyncAccessTokenGrant::refresh_token and AsyncDeviceCodeGrant::refresh_token
async_refresh_token(h) ==
    AsyncTokenRequestFrom(h, pre_request_check(h.oauth, h.grant, "RefreshToken"),
                          "RefreshToken", "RefreshTokenUrl")

\* a send that posts whatever the request carries
send_ignoring_error(req, transport_ok) ==
    [network |-> TRUE,
     res |-> IF transport_ok THEN Ok("response") ELSE Err([kind |-> "transport", what |-> ""])]

\* AuthorizationRequest::open and AccessTokenRequest::send: a request that
\* carries an error returns it; otherwise the browser launch or the HTTP
\* post takes place and its outcome is the result
send(req, transport_ok) ==
    IF IsSome(req.error)
    THEN [network |-> FALSE, res |-> Err(Unwrap(req.error))]
    ELSE [network |-> TRUE,
          res |-> IF transport_ok THEN Ok("response")
                  ELSE Err([kind |-> "transport", what |-> ""])]

open(req, launch_ok) ==
    IF IsSome(req.error)
    THEN [network |-> FALSE, res |-> Err(Unwrap(req.error))]
    ELSE [network |-> TRUE,
          res |-> IF launch_ok THEN Ok("launched")
                  ELSE Err([kind |-> "io", what |-> ""])]

(***************************************************************************)
(* AuthorizationCodeCredential and its builder                              *)
(* (identity/credentials/authorization_code_credential.rs).                 *)
(***************************************************************************)
\* str::trim on the strings of the model: " " is the one made of white space
trim(v) == IF v = " " THEN "" ELSE v

MutuallyExclusive ==
    "Authorization code and refresh token cannot be set at the same time - choose one or the other"
EitherRequired == "Either authorization code or refresh token is required"

\* AuthorizationFailure::required_value(name, message)
required_value(name, message) ==
    Err([kind |-> "required_value_missing", what |-> name, message |-> message])

\* AuthorizationCodeCredentialBuilder::new: the credential it starts from
NewCredential ==
    [authorization_code |-> None, refresh_token |-> None, client_id |-> "",
     client_secret |-> "", redirect_uri |-> "", scopes |-> {},
     code_verifier |-> None, serializer |-> new]

NewBuilder == [authorization_code_credential |-> NewCredential, called |-> {}]

with_authorization_code(c, v) == [c EXCEPT !.authorization_code = Some(v)]

with_refresh_token(c, v) ==
    [c EXCEPT !.authorization_code = None, !.refresh_token = Some(v)]

extend_scopes(s, scopes) == [s EXCEPT !.scopes = @ \cup scopes]

Required(oac) == [required |-> TRUE, oac |-> oac]
NotRequired(oac) == [required |-> FALSE, oac |-> oac]

\* one field of authorization_form: a field that is present goes into the
\* map, scope when the scope set is not empty; a required field that is
\* missing is an error, an optional one is left out
FormInsert(s, f, map) ==
    IF f.oac = "Scope" /\ s.scopes # {}
    THEN Ok(MapInsert(map, "scope", join_scopes(s, " ")))
    ELSE IF f.oac # "Scope" /\ IsSome(get(s, f.oac))
         THEN Ok(MapInsert(map, alias(f.oac), Unwrap(get(s, f.oac))))
    ELSE IF f.required THEN Err(required(alias(f.oac)))
    ELSE Ok(map)

RECURSIVE FormFrom(_, _, _)
FormFrom(s, fields, map) ==
    IF fields = <<>> THEN Ok(map)
    ELSE LET next == FormInsert(s, Head(fields), map)
         IN IF ~next.ok THEN next ELSE FormFrom(s, Tail(fields), next.val)

\* the serializer's authorization_form(form_credentials)
authorization_form(s, form_credentials) == FormFrom(s, form_credentials, << >>)

RefreshTokenForm ==
    <<Required("ClientId"), Required("ClientSecret"), Required("RefreshToken"),
      Required("GrantType"), NotRequired("Scope")>>

AuthorizationCodeForm ==
    <<Required("ClientId"), Required("ClientSecret"), Required("RedirectUri"),
      Required("AuthorizationCode"), Required("GrantType"), NotRequired("Scope"),
      NotRequired("CodeVerifier")>>

\* form returns e; s is the serializer the credential is left with
Failed(c, s, e) == [credential |-> [c EXCEPT !.serializer = s], res |-> e]

Formed(c, s, form_credentials) ==
    [credential |-> [c EXCEPT !.serializer = s],
     res |-> authorization_form(s, form_credentials)]

\* form once client_id, client_secret and the scopes are in the serializer s
FormWithClient(c, s) ==
    IF IsSome(c.refresh_token)
    THEN IF trim(Unwrap(c.refresh_token)) = ""
         THEN Failed(c, s, required_value(alias("RefreshToken"), Some(EitherRequired)))
         ELSE Formed(c,
                     Configure(Configure(s, "GrantType", Some("refresh_token")),
                               "RefreshToken", c.refresh_token),
                     RefreshTokenForm)
    ELSE IF IsSome(c.authorization_code)
    THEN IF trim(Unwrap(c.authorization_code)) = ""
         THEN Failed(c, s, required_value(alias("RefreshToken"), Some(EitherRequired)))
         ELSE Formed(c,
                     Configure(
                       Configure(
                         Configure(
                           Configure(s, "AuthorizationCode", c.authorization_code),
                           "GrantType", Some("authorization_code")),
                         "RedirectUri", Some(c.redirect_uri)),
                       "CodeVerifier", c.code_verifier),
                     AuthorizationCodeForm)
    ELSE Failed(c, s, required_value("code or refresh_token", Some(EitherRequired)))

WithClient(c) ==
    extend_scopes(Configure(Configure(c.serializer, "ClientId", Some(c.client_id)),
                            "ClientSecret", Some(c.client_secret)),
                  c.scopes)

\* a form that does not look at client_id and client_secret itself
form_unchecked(c) == FormWithClient(c, WithClient(c))

\* AuthorizationCodeCredential::form
form(c) ==
    IF IsSome(c.authorization_code) /\ IsSome(c.refresh_token)
    THEN Failed(c, c.serializer,
                required_value("code or refresh_token", Some(MutuallyExclusive)))
    ELSE IF trim(c.client_id) = ""
    THEN Failed(c, c.serializer, required_value(alias("ClientId"), None))
    ELSE IF trim(c.client_secret) = ""
    THEN Failed(c, c.serializer, required_value(alias("ClientSecret"), None))
    ELSE FormWithClient(c, WithClient(c))

(***************************************************************************)
(* MsalToken (graph-extensions/src/token/msal_token.rs).  Times are whole   *)
(* seconds since the Unix epoch.                                            *)
(***************************************************************************)
Epoch == 0

\* the expires_in values callers and token responses use, a negative one
\* among them
ExpiresInValues == (0 - 1)..MaxExpiresIn

\* MsalToken::new at the clock value clock
msal_token_new(token_type, expires_in, bearer, scope, clock) ==
    [access_token |-> bearer, token_type |-> token_type, expires_in |-> expires_in,
     scope |-> scope, refresh_token |-> None, user_id |-> None, id_token |-> None,
     state |-> None, timestamp |-> Some(clock),
     expires_on |-> Some(clock + expires_in), additional_fields |-> {},
     log_pii |-> FALSE]

\* impl Default for MsalToken
msal_token_default(clock) ==
    [access_token |-> "", token_type |-> "", expires_in |-> 0, scope |-> <<>>,
     refresh_token |-> None, user_id |-> None, id_token |-> None, state |-> None,
     timestamp |-> Some(clock), expires_on |-> Some(Epoch),
     additional_fields |-> {}, log_pii |-> FALSE]

\* i64::from_str on the text of a JSON string
from_str_i64(text) ==
    IF \E n \in ExpiresInValues : ToString(n) = text
    THEN Ok(CHOOSE n \in ExpiresInValues : ToString(n) = text)
    ELSE Err([kind |-> "deserialization", what |-> text])

\* a deserializer of expires_in that takes JSON numbers only
deserialize_number_only(wire) ==
    IF wire.kind = "number" THEN Ok(wire.number)
    ELSE Err([kind |-> "deserialization", what |-> wire.text])

\* serde_aux deserialize_number_from_string: a JSON number is taken as it
\* is, a JSON string is parsed
deserialize_number_from_string(wire) ==
    IF wire.kind = "number" THEN Ok(wire.number) ELSE from_str_i64(wire.text)

\* the token made of a response once its expires_in is parsed
Deserialized(json, expires_in, clock) ==
    IF ~expires_in.ok THEN Err(expires_in.err)
    ELSE Ok([msal_token_new(json.token_type, expires_in.val, json.access_token,
                            <<>>, clock)
                EXCEPT !.refresh_token = json.refresh_token,
                       !.id_token = json.id_token,
                       !.additional_fields = json.additional_fields])

\* impl Deserialize for MsalToken
deserialize(json, clock) ==
    Deserialized(json, deserialize_number_from_string(json.expires_in), clock)

\* a with_expires_in that keeps the timestamp the token had
with_expires_in_stale(tk, expires_in, clock) ==
    [tk EXCEPT !.expires_in = expires_in,
               !.expires_on = Some(clock + expires_in)]

with_expires_in(tk, expires_in, clock) ==
    [tk EXCEPT !.expires_in = expires_in,
               !.expires_on = Some(clock + expires_in),
               !.timestamp = Some(clock)]

gen_timestamp(tk, clock) ==
    [tk EXCEPT !.timestamp = Some(clock), !.expires_on = Some(clock + tk.expires_in)]

\* with_refresh_token, with_user_id, set_id_token, with_state
with_some(tk, field, s) == [tk EXCEPT ![field] = Some(s)]

enable_pii_logging(tk, log_pii) == [tk EXCEPT !.log_pii = log_pii]

\* an is_expired that counts the second of expiry as expired
is_expired_at_expiry(tk, clock) ==
    IF IsSome(tk.expires_on) THEN Unwrap(tk.expires_on) <= clock ELSE FALSE

is_expired(tk, clock) ==
    IF IsSome(tk.expires_on) THEN Unwrap(tk.expires_on) < clock ELSE FALSE

elapsed(tk) ==
    IF tk.expires_on = None \/ tk.timestamp = None THEN None
    ELSE Some(Unwrap(tk.expires_on) - Unwrap(tk.timestamp))

\* {:?} of an Option<String> and of an Option<OffsetDateTime>
DebugString(o) == IF o = None THEN "None" ELSE "Some(\"" \o Unwrap(o) \o "\")"
DebugTime(o) == IF o = None THEN "None" ELSE "Some(" \o ToString(Unwrap(o)) \o ")"

RedactedBearer == "[REDACTED]  - call enable_pii_logging(true) to log value"
Redacted == "[REDACTED] - call enable_pii_logging(true) to log value"

\* the fields both arms of fmt print after the first two and around id_token
DebugFields(tk, id_token) ==
    << <<"token_type", tk.token_type>>,
       <<"expires_in", ToString(tk.expires_in)>>,
       <<"scope", tk.scope>>,
       <<"user_id", DebugString(tk.user_id)>>,
       <<"id_token", id_token>>,
       <<"state", DebugString(tk.state)>>,
       <<"timestamp", DebugTime(tk.timestamp)>>,
       <<"expires_on", DebugTime(tk.expires_on)>>,
       <<"additional_fields", tk.additional_fields>> >>

\* a Debug that prints the values whatever log_pii says
fmt_verbose(tk) ==
    << <<"bearer_token", tk.access_token>>,
       <<"refresh_token", DebugString(tk.refresh_token)>> >>
    \o DebugFields(tk, DebugString(tk.id_token))

\* impl fmt::Debug for MsalToken: the fields of the debug_struct
fmt(tk) ==
    IF tk.log_pii
    THEN << <<"bearer_token", tk.access_token>>,
            <<"refresh_token", DebugString(tk.refresh_token)>> >>
         \o DebugFields(tk, DebugString(tk.id_token))
    ELSE << <<"bearer_token", RedactedBearer>>, <<"refresh_token", Redacted>> >>
         \o DebugFields(tk, Redacted)

NoToken == None
NotIssued == [by |-> "none", at |-> Epoch, expires_in |-> 0]

(***************************************************************************)
(* IdToken (graph-oauth/src/id_token.rs).  A text is the sequence of its    *)
(* pieces: the punctuation characters and the words between them.           *)
(***************************************************************************)
Amp == "&"
Equals == "="
Quote == "\""

RECURSIVE Concat(_)
\* the string the pieces make
Concat(pieces) ==
    IF pieces = <<>> THEN "" ELSE Head(pieces) \o Concat(Tail(pieces))

RECURSIVE SplitAt(_, _, _)
\* the runs of text between the separators sep, after the run cur read so far
SplitAt(text, sep, cur) ==
    IF text = <<>> THEN <<cur>>
    ELSE (IF Head(text) = sep THEN <<cur>> ELSE <<>>)
         \o SplitAt(Tail(text), sep,
                    IF Head(text) = sep THEN <<>> ELSE Append(cur, Head(text)))

\* the place of the first = of a run, 0 if it has none
FirstEquals(run) ==
    IF \E i \in 1..Len(run) : run[i] = Equals
    THEN CHOOSE i \in 1..Len(run) :
            run[i] = Equals /\ \A j \in 1..(i - 1) : run[j] # Equals
    ELSE 0

\* one name=value run: the name is all of it when it has no =
SplitPair(run, i) ==
    IF i = 0 THEN <<Concat(run), "">>
    ELSE <<Concat(SubSeq(run, 1, i - 1)), Concat(SubSeq(run, i + 1, Len(run)))>>

IsNotEmpty(run) == run # <<>>

PairsOf(runs) == [k \in 1..Len(runs) |-> SplitPair(runs[k], FirstEquals(runs[k]))]

\* url::form_urlencoded::parse(..).collect(): the text is cut at every &,
\* empty runs are skipped, each run is cut at its first =
form_urlencoded_parse(text) ==
    PairsOf(SelectSeq(SplitAt(text, Amp, <<>>), IsNotEmpty))

\* IdToken::default()
IdTokenDefault ==
    [code |-> None, id_token |-> "", state |-> None, session_state |-> None,
     additional_fields |-> <<>>, log_pii |-> FALSE]

\* one arm of the match on the key
IdTokenSet(tk, key, value) ==
    CASE key = "code" -> [tk EXCEPT !.code = Some(value)]
      [] key = "id_token" -> [tk EXCEPT !.id_token = value]
      [] key = "state" -> [tk EXCEPT !.state = Some(value)]
      [] key = "session_state" -> [tk EXCEPT !.session_state = Some(value)]
      [] OTHER -> [tk EXCEPT !.additional_fields = MapInsert(@, key, value)]

RECURSIVE IdTokenFrom(_, _)
\* the for loop over the pairs
IdTokenFrom(tk, pairs) ==
    IF pairs = <<>> THEN tk
    ELSE IdTokenFrom(IdTokenSet(tk, Head(pairs)[1], Head(pairs)[2]), Tail(pairs))

\* the text is one JSON string
IsJsonString(text) ==
    /\ Len(text) >= 2
    /\ text[1] = Quote
    /\ text[Len(text)] = Quote
    /\ \A i \in 2..(Len(text) - 1) : text[i] # Quote

RECURSIVE from_str(_)
\* serde_json::from_slice::<IdToken>: IdToken's Deserialize asks for an
\* identifier, which serde_json reads from a JSON string only and hands to
\* visit_str, that is to from_str; any other JSON value and any text that is
\* no JSON is an error
serde_json_from_slice(text) ==
    IF IsJsonString(text) THEN from_str(SubSeq(text, 2, Len(text) - 1))
    ELSE Err([kind |-> "json", what |-> Concat(text)])

\* impl FromStr for IdToken
from_str(s) ==
    IF form_urlencoded_parse(s) = <<>> THEN serde_json_from_slice(s)
    ELSE Ok(IdTokenFrom(IdTokenDefault, form_urlencoded_parse(s)))

(***************************************************************************)
(* OpenIdAuthorizationUrlBuilder                                            *)
(* (identity/credentials/open_id_authorization_url.rs).                     *)
(***************************************************************************)
\* Crypto::secure_random_string(): a fresh string, or the failure of the
\* system's random source
RandomOutcomes == {Ok("n1"), Ok("n2"), Err([kind |-> "crypto", what |-> "rng"])}

\* OpenIdAuthorizationUrl::new with this nonce
OpenIdNew(client_id, redirect_uri, nonce) ==
    [client_id |-> client_id, redirect_uri |-> redirect_uri,
     response_type |-> <<"code">>, response_mode |-> None, nonce |-> nonce,
     state |-> None, scope |-> <<"openid">>, prompt |-> <<>>,
     domain_hint |-> None, login_hint |-> None, authority |-> AuthorityDefault]

with_response_type(b, response_type) == [b EXCEPT !.response_type = response_type]
with_response_mode(b, response_mode) == [b EXCEPT !.response_mode = Some(response_mode)]
with_nonce(b, nonce) == [b EXCEPT !.nonce = nonce]
with_scope(b, scopes) == [b EXCEPT !.scope = scopes]

DefaultScope == <<"profile", "email", "id_token", "offline_access">>

\* with_default_scope once the nonce is generated
WithDefaults(b) ==
    with_scope(with_response_type(with_response_mode(b, "form_post"),
                                  <<"code", "id_token">>),
               DefaultScope)

\* with_default_scope, the random source giving random: the builder it
\* leaves, and the error if with_nonce_generated()? returned one
with_default_scope(b, random) ==
    IF random.ok THEN [builder |-> WithDefaults(with_nonce(b, random.val)), res |-> Ok(<<>>)]
    ELSE [builder |-> b, res |-> Err(random.err)]

(***************************************************************************)
(* AuthorizationCodeAuthorizationUrl                                        *)
(* (identity/credentials/authorization_code_authorization_url.rs).          *)
(***************************************************************************)
\* AuthorizationCodeAuthorizationUrlBuilder::new
NewAuthorizer ==
    [client_id |-> "", redirect_uri |-> "", authority |-> AuthorityDefault,
     response_mode |-> "query", response_type |-> "code", nonce |-> None,
     state |-> None, scopes |-> <<>>, prompt |-> None, domain_hint |-> None,
     login_hint |-> None, code_verifier |-> None, code_challenge |-> None,
     code_challenge_method |-> None]

\* the elements of a Vec
Elements(vec) == { vec[i] : i \in 1..Len(vec) }

\* a setter called on what the call before it left
ThenSet(c, p, v) == IF c.panic THEN c ELSE setter(c.store, p, v)

\* OAuthSerializer::authority for a host other than OneDriveAndSharePoint,
\* as url() passes it
authority(s, host, a) ==
    ThenSet(ThenSet(setter(s, "AuthorizationUrl", AuthorizeEndpoint(host, a)),
                    "AccessTokenUrl", TokenEndpoint(host, a)),
            "RefreshTokenUrl", TokenEndpoint(host, a))

\* the serializer after the unconditional setters of url_with_host
AuthorizerRequired(c, host) ==
    ThenSet(ThenSet(authority(extend_scopes(
                                  setter(setter(new, "ClientId", c.client_id).store,
                                         "RedirectUri", c.redirect_uri).store,
                                  Elements(c.scopes)),
                              host, c.authority),
                    "ResponseMode", c.response_mode),
            "ResponseType", c.response_type)

\* the serializer after the if let Some(..) setters of url_with_host
AuthorizerOptional(c, s) ==
    Configure(Configure(Configure(Configure(Configure(Configure(s,
        "State", c.state), "Prompt", c.prompt), "DomainHint", c.domain_hint),
        "LoginHint", c.login_hint), "CodeChallenge", c.code_challenge),
        "CodeChallengeMethod", c.code_challenge_method)

authorization_credentials ==
    << "ClientId", "RedirectUri", "State", "ResponseMode", "ResponseType",
       "Scope", "Prompt", "DomainHint", "LoginHint", "CodeChallenge",
       "CodeChallengeMethod" >>

\* url.set_query(Some(encoder.finish())) on the parsed authorization URL
SetQuery(url, pairs) ==
    IF ~url.ok THEN Err(url.err) ELSE Ok([url.val EXCEPT !.query = pairs])

\* the tail of url_with_host on the configured serializer
AuthorizerUrl(s) ==
    SetQuery(ParseStored(get_or_else(s, "AuthorizationUrl")),
             form_encode_credentials(s, authorization_credentials))

\* the part of url_with_host after the two checks
AuthorizerEncode(c, configured) ==
    IF configured.panic THEN [panic |-> TRUE]
    ELSE [panic |-> FALSE, res |-> AuthorizerUrl(AuthorizerOptional(c, configured.store))]

\* a url_with_host that looks at client_id first
url_with_host_client_id_first(c, host) ==
    IF trim(c.client_id) = ""
    THEN [panic |-> FALSE, res |-> Err(error_from("ClientId"))]
    ELSE IF trim(c.redirect_uri) = ""
    THEN [panic |-> FALSE, res |-> Err(error_from("RedirectUri"))]
    ELSE AuthorizerEncode(c, AuthorizerRequired(c, host))

url_with_host(c, host) ==
    IF trim(c.redirect_uri) = ""
    THEN [panic |-> FALSE, res |-> Err(error_from("RedirectUri"))]
    ELSE IF trim(c.client_id) = ""
    THEN [panic |-> FALSE, res |-> Err(error_from("ClientId"))]
    ELSE AuthorizerEncode(c, AuthorizerRequired(c, host))

\* AuthorizationCodeAuthorizationUrl::url
url(c) == url_with_host(c, AuthorityHostDefault)

(***************************************************************************)
(* State.                                                                   *)
(***************************************************************************)
VARIABLES
    oauth,      \* the OAuthSerializer the caller configures
    handle,     \* the grant handle built from it, or NoHandle
    request,    \* the request descriptor last built and not yet consumed
    result,     \* the last call: its name, its arguments and what it returned
    inserted,   \* history: per parameter, the value of the last completed
                \* insert that no remove followed
    handles,    \* the grant handles built side by side from the serializer,
                \* each naming the address of the store it owns
    memory,     \* the stores the handles own, by address
    builder,    \* the AuthorizationCodeCredentialBuilder: its credential and,
                \* as history, which of the code / refresh token setters ran
    token,      \* the MsalToken the caller holds
    now,        \* the UTC clock, in seconds since the Unix epoch
    issued,     \* history: the call that last set the token's expiry, the
                \* clock value then and the expires_in it was given
    open_id,    \* the OpenIdAuthorizationUrl an OpenIdAuthorizationUrlBuilder
                \* holds
    authorizer  \* the AuthorizationCodeAuthorizationUrl its builder holds

vars ==
    <<oauth, handle, request, result, inserted, handles, memory, builder,
      token, now, issued, open_id, authorizer>>

\* the variables of the serializer and its handles
storeVars == <<oauth, handle, request, inserted, handles, memory>>
\* the variables of the token and its clock
tokenVars == <<token, now, issued>>
\* the variables of the authorization URL builders
urlVars == <<open_id, authorizer>>

NoHandle == [oauth |-> new, grant |-> "none"]
NoRequest == [type |-> "none", uri |-> "", params |-> << >>, error |-> None]

Call(op, arg, out) == [op |-> op, arg |-> arg, out |-> out]

(***************************************************************************)
(* Specification Spec: a caller configuring one OAuthSerializer.            *)
(***************************************************************************)
\* the parameters and values the caller uses
StoreParams == {"ClientId", "RefreshToken", "Scope", "AuthorizationUrl"}
SetterParams == {"RefreshToken", "AuthorizationUrl"}
InsertValues(p) == IF p \in UrlTyped THEN {AuthUrl, NotAUrl} ELSE Values
Tokens == { Token(None) } \cup { Token(Some(v)) : v \in Values }
FieldLists ==
    { available_credentials("AuthorizationCode", r) : r \in GrantRequest }
    \cup { <<"Scope", "AuthorizationUrl">>, <<"RefreshToken">> }

Init ==
    /\ oauth = new
    /\ handle = NoHandle
    /\ request = NoRequest
    /\ result = Call("new", <<>>, <<>>)
    /\ inserted = [p \in OAuthParameter |-> None]
    /\ handles = <<>>
    /\ memory = <<>>
    /\ builder = NewBuilder
    /\ open_id = OpenIdNew("", "", "n1")
    /\ authorizer = NewAuthorizer
    /\ token = NoToken
    /\ now = Epoch
    /\ issued = NotIssued

\* oauth.insert(p, v)
Inserts(op, p, v, r) ==
    /\ oauth' = r.store
    /\ result' = Call(op, <<p, v>>, [panic |-> r.panic, before |-> oauth])
    /\ inserted' = IF r.panic THEN inserted ELSE [inserted EXCEPT ![p] = Some(v)]
    /\ UNCHANGED <<urlVars, handle, request, handles, memory, builder, token, now, issued>>

Insert(p, v) == Inserts("insert", p, v, insert(oauth, p, v))

Setter(p, v) == Inserts("setter", p, v, setter(oauth, p, v))

\* oauth.remove(p)
Remove(p) ==
    /\ oauth' = remove(oauth, p)
    /\ result' = Call("remove", <<p>>, <<>>)
    /\ inserted' = [inserted EXCEPT ![p] = None]
    /\ UNCHANGED <<urlVars, handle, request, handles, memory, builder, token, now, issued>>

AddScope(scope) ==
    /\ oauth' = add_scope(oauth, scope)
    /\ result' = Call("add_scope", <<scope>>, <<>>)
    /\ UNCHANGED <<urlVars, handle, request, inserted, handles, memory, builder, token, now, issued>>

RemoveScope(scope) ==
    /\ oauth' = remove_scope(oauth, scope)
    /\ result' = Call("remove_scope", <<scope>>, <<>>)
    /\ UNCHANGED <<urlVars, handle, request, inserted, handles, memory, builder, token, now, issued>>

ClearScopes ==
    /\ oauth' = clear_scopes(oauth)
    /\ result' = Call("clear_scopes", <<>>, <<>>)
    /\ UNCHANGED <<urlVars, handle, request, inserted, handles, memory, builder, token, now, issued>>

\* oauth.access_token(ac): inserts the token's refresh_token, if it has one
StoreToken(ac) ==
    /\ oauth' = access_token(oauth, ac)
    /\ result' = Call("access_token", <<ac>>, <<>>)
    /\ inserted' = IF IsSome(ac.refresh_token)
                   THEN [inserted EXCEPT !["RefreshToken"] = ac.refresh_token]
                   ELSE inserted
    /\ UNCHANGED <<urlVars, handle, request, handles, memory, builder, token, now, issued>>

\* oauth.params(pairs)
CallParams(pairs) ==
    /\ result' = Call("params", pairs, params(oauth, pairs))
    /\ UNCHANGED <<urlVars, oauth, handle, request, inserted, handles, memory, builder, token, now, issued>>

Next ==
    \/ \E p \in StoreParams : \E v \in InsertValues(p) : Insert(p, v)
    \/ \E p \in SetterParams : \E v \in InsertValues(p) : Setter(p, v)
    \/ \E p \in StoreParams : Remove(p)
    \/ \E scope \in ScopeNames : AddScope(scope)
    \/ \E scope \in ScopeNames : RemoveScope(scope)
    \/ ClearScopes
    \/ \E ac \in Tokens : StoreToken(ac)
    \/ \E pairs \in FieldLists : CallParams(pairs)

Spec == Init /\ [][Next]_vars

(***************************************************************************)
(* Specification SpecGrant: a serializer configured by its setters, the     *)
(* grant handle built from it and the token requests the handle builds.     *)
(***************************************************************************)
\* the fields a caller sets before build, all to the same value v
CallerFields == {"ClientId", "GrantType", "RefreshToken"}

RECURSIVE ConfigureAll(_, _, _)
ConfigureAll(s, fields, v) ==
    IF fields = {} THEN s
    ELSE LET p == CHOOSE q \in fields : TRUE
         IN ConfigureAll(Configure(s, p, Some(v)), fields \ {p}, v)

\* the endpoints a caller configures: none, or the authorization endpoint
\* (with or without a query of its own) and both token endpoints
Endpoints(s, au) ==
    IF au = None THEN s
    ELSE Configure(Configure(Configure(s, "AuthorizationUrl", au),
                             "AccessTokenUrl", Some(TokenUrl)),
                   "RefreshTokenUrl", Some(TokenUrl))

GrantStores ==
    { [ConfigureAll(Endpoints(new, au), fields, "v1") EXCEPT !.scopes = sc] :
        au \in {None, Some(AuthUrl), Some(AuthUrlWithQuery)},
        fields \in SUBSET CallerFields,
        sc \in {{}, ScopeNames} }

EntryParams == {"GrantType", "AuthorizationUrl"}
EncodeGrants == {"TokenFlow", "Implicit"}

InitGrant ==
    /\ oauth \in GrantStores
    /\ handle = NoHandle
    /\ request = NoRequest
    /\ result = Call("new", <<>>, <<>>)
    /\ inserted = [p \in OAuthParameter |-> None]
    /\ handles = <<>>
    /\ memory = <<>>
    /\ builder = NewBuilder
    /\ open_id = OpenIdNew("", "", "n1")
    /\ authorizer = NewAuthorizer
    /\ token = NoToken
    /\ now = Epoch
    /\ issued = NotIssued

\* oauth.entry_with(p, v)
Enters(p, v, r) ==
    /\ oauth' = r.store
    /\ result' = Call("entry_with", <<p, v>>,
                      [panic |-> r.panic, val |-> r.val, before |-> oauth])
    /\ UNCHANGED <<urlVars, handle, request, inserted, handles, memory, builder, token, now, issued>>

EntryWith(p, v) ==
    /\ handle = NoHandle
    /\ Enters(p, v, entry_with(oauth, p, v))

\* oauth.encode_uri(grant, request_type)
Encodes(grant, request_type, e) ==
    /\ oauth' = e.store
    /\ result' = Call("encode_uri", <<grant, request_type, oauth>>, e.res)
    /\ UNCHANGED <<urlVars, handle, request, inserted, handles, memory, builder, token, now, issued>>

CallEncodeUri(grant, request_type) ==
    /\ handle = NoHandle
    /\ Encodes(grant, request_type, encode_uri(oauth, grant, request_type))

\* the field lists a caller hands to encode_query
QueryLists ==
    { [optional |-> <<"ResponseType", "GrantType">>, required |-> <<"ClientId", "Scope">>],
      [optional |-> <<"Scope", "ResponseType">>, required |-> <<"ClientId">>],
      [optional |-> <<>>, required |-> <<"Scope", "RefreshToken">>] }

\* oauth.encode_query(optional_fields, required_fields, encoder)
CallEncodeQuery(l) ==
    /\ handle = NoHandle
    /\ result' = Call("encode_query", <<l.optional, l.required, oauth>>,
                      encode_query(oauth, l.optional, l.required))
    /\ UNCHANGED <<urlVars, oauth, handle, request, inserted, handles, memory, builder, token, now, issued>>

\* oauth.build().<grant>()
Build(grant) ==
    /\ handle = NoHandle
    /\ handle' = build(oauth, grant)
    /\ result' = Call("build", <<grant>>, <<>>)
    /\ UNCHANGED <<urlVars, oauth, request, inserted, handles, memory, builder, token, now, issued>>

\* a handle of one of these types, with no request of its pending
IsHandle(types) ==
    /\ handle.grant # "none"
    /\ HandleType(handle.grant) \in types
    /\ request.type = "none"

\* a builder method returns the request b.req and leaves the handle b.handle
BuildRequest(op, b) ==
    /\ handle' = b.handle
    /\ request' = b.req
    /\ result' = Call(op, handle, b.req)
    /\ UNCHANGED <<urlVars, oauth, inserted, handles, memory, builder, token, now, issued>>

ReturnUrl(u) ==
    /\ handle' = u.handle
    /\ result' = Call("authorization_url", handle, u.res)
    /\ UNCHANGED <<urlVars, oauth, request, inserted, handles, memory, builder, token, now, issued>>

\* handle.authorization_url()
GrantAuthorizationUrl ==
    /\ IsHandle({"AccessTokenGrant", "DeviceCodeGrant"})
    /\ \E order \in AuthorizationOrders(handle) :
          ReturnUrl(authorization_url(handle, order))

\* handle.browser_authorization() of an AccessTokenGrant
BrowserAuthorization ==
    /\ IsHandle({"AccessTokenGrant"})
    /\ \E order \in AuthorizationOrders(handle) :
          BuildRequest("browser_authorization",
                            browser_authorization(handle, order))

\* handle.browser_authorization() of an ImplicitGrant
ImplicitBrowserAuthorization ==
    /\ IsHandle({"ImplicitGrant"})
    /\ \E order \in ImplicitOrders(handle) :
          BuildRequest("browser_authorization",
                            implicit_browser_authorization(handle, order))

\* handle.authorization() of a DeviceCodeGrant
DeviceAuthorization ==
    /\ IsHandle({"DeviceCodeGrant"})
    /\ BuildRequest("authorization", device_authorization(handle))

\* handle.access_token()
GrantAccessToken ==
    /\ IsHandle({"AccessTokenGrant", "DeviceCodeGrant"})
    /\ BuildRequest("access_token", grant_access_token(handle))

\* handle.refresh_token()
GrantRefreshToken ==
    /\ IsHandle({"AccessTokenGrant", "DeviceCodeGrant"})
    /\ BuildRequest("refresh_token", grant_refresh_token(handle))

\* request.send(): the transport answers or fails
Send(transport_ok) ==
    /\ request.type = "AccessTokenRequest"
    /\ result' = Call("send", request, send(request, transport_ok))
    /\ request' = NoRequest
    /\ UNCHANGED <<urlVars, oauth, handle, inserted, handles, memory, builder, token, now, issued>>

\* request.open(): the browser launches or not
Open(launch_ok) ==
    /\ request.type = "AuthorizationRequest"
    /\ result' = Call("open", request, open(request, launch_ok))
    /\ request' = NoRequest
    /\ UNCHANGED <<urlVars, oauth, handle, inserted, handles, memory, builder, token, now, issued>>

\* the serializer before build, the token requests of the handles and what
\* send makes of them
NextGrant ==
    \/ \E p \in EntryParams : \E v \in InsertValues(p) : EntryWith(p, v)
    \/ \E g \in EncodeGrants : \E r \in GrantRequest : CallEncodeUri(g, r)
    \/ \E g \in GrantType : Build(g)
    \/ DeviceAuthorization
    \/ GrantAccessToken
    \/ GrantRefreshToken
    \/ \E transport_ok \in BOOLEAN : Send(transport_ok)

SpecGrant == InitGrant /\ [][NextGrant]_vars

(***************************************************************************)
(* Specification SpecRequest: every request descriptor a handle builds and  *)
(* what send and open make of it.                                           *)
(***************************************************************************)
NextRequest ==
    \/ \E g \in GrantType : Build(g)
    \/ BrowserAuthorization
    \/ ImplicitBrowserAuthorization
    \/ DeviceAuthorization
    \/ GrantAccessToken
    \/ GrantRefreshToken
    \/ \E transport_ok \in BOOLEAN : Send(transport_ok)
    \/ \E launch_ok \in BOOLEAN : Open(launch_ok)

SpecRequest == InitGrant /\ [][NextRequest]_vars

(***************************************************************************)
(* Specification SpecUrl: the authorization URLs built by encode_query and  *)
(* by the handles.                                                          *)
(***************************************************************************)
NextUrl ==
    \/ \E l \in QueryLists : CallEncodeQuery(l)
    \/ \E g \in GrantType : Build(g)
    \/ GrantAuthorizationUrl

SpecUrl == InitGrant /\ [][NextUrl]_vars

(***************************************************************************)
(* Specification SpecStored: a serializer that stores one token response    *)
(* after the other and is asked for the refresh token; the caller sets      *)
(* client_id and client_secret and never the refresh token.                 *)
(***************************************************************************)
\* oauth.get_refresh_token()
GetRefreshToken ==
    /\ result' = Call("get_refresh_token", <<oauth>>, get_refresh_token(oauth))
    /\ UNCHANGED <<urlVars, oauth, handle, request, inserted, handles, memory, builder, token, now, issued>>

NextStored ==
    \/ \E ac \in Tokens : StoreToken(ac)
    \/ \E p \in {"ClientId", "ClientSecret"} : \E v \in Values : Setter(p, v)
    \/ GetRefreshToken

SpecStored == Init /\ [][NextStored]_vars

(***************************************************************************)
(* Specification SpecQuery: a caller who fills the store, also with a       *)
(* literal scope entry, and encodes queries from field lists of their own.  *)
(***************************************************************************)
QueryParams == {"ClientId", "Scope", "ResponseType"}

NextQuery ==
    \/ \E p \in QueryParams : \E v \in Values : Insert(p, v)
    \/ \E p \in QueryParams : Remove(p)
    \/ \E scope \in ScopeNames : AddScope(scope)
    \/ ClearScopes
    \/ \E l \in QueryLists : CallEncodeQuery(l)

SpecQuery == Init /\ [][NextQuery]_vars

(***************************************************************************)
(* Specification SpecHandles: one serializer and the grant handles built    *)
(* from it side by side.  A store lives at an address: the serializer's own *)
(* at SerializerAddr, the store of a handle where clone has put it.         *)
(***************************************************************************)
SerializerAddr == 0

\* the store at an address
StoreAt(s, mem, a) == IF a = SerializerAddr THEN s ELSE mem[a]

\* a clone that hands out the address of the store it was asked to copy
clone_sharing(s, mem, a) == [mem |-> mem, addr |-> a]

\* #[derive(Clone)] of OAuthSerializer: the fields are owned values, so the
\* clone is a store of its own, at a fresh address, with the same content
clone(s, mem, a) == [mem |-> Append(mem, StoreAt(s, mem, a)), addr |-> Len(mem) + 1]

\* the grants of the handles built side by side, in the order they are
\* built: one of each handle type
HandleGrants == <<"AuthorizationCode", "Implicit", "DeviceCode">>
\* what the caller sets through as_mut() of a handle and on the serializer
HandleParams == {"GrantType"}
HandleValue == "v1"
HandleScope == "s1"

InitHandles ==
    /\ oauth = Endpoints(new, Some(AuthUrl))
    /\ handle = NoHandle
    /\ request = NoRequest
    /\ result = Call("new", <<>>, <<>>)
    /\ inserted = [p \in OAuthParameter |-> None]
    /\ handles = <<>>
    /\ memory = <<>>
    /\ builder = NewBuilder
    /\ open_id = OpenIdNew("", "", "n1")
    /\ authorizer = NewAuthorizer
    /\ token = NoToken
    /\ now = Epoch
    /\ issued = NotIssued

\* the i-th handle with the store it owns
HandleAt(i) ==
    [oauth |-> StoreAt(oauth, memory, handles[i].oauth), grant |-> handles[i].grant]

\* a write through &mut to the store at the address a
Writes(a, s1) ==
    /\ oauth' = IF a = SerializerAddr THEN s1 ELSE oauth
    /\ memory' = IF a = SerializerAddr THEN memory ELSE [memory EXCEPT ![a] = s1]

Built(grant, c) ==
    /\ memory' = c.mem
    /\ handles' = Append(handles, [oauth |-> c.addr, grant |-> grant])
    /\ result' = Call("build", <<Len(handles) + 1, grant>>, <<>>)
    /\ UNCHANGED <<urlVars, oauth, handle, request, inserted, builder, token, now, issued>>

\* oauth.build().<grant>(), the handle kept next to those built before
BuildHandle ==
    /\ Len(handles) < MaxHandles
    /\ Built(HandleGrants[Len(handles) + 1], clone(oauth, memory, SerializerAddr))

IsHandleAt(i, types) ==
    /\ i \in 1..Len(handles)
    /\ HandleType(handles[i].grant) \in types

\* a builder method of the i-th handle returns the request b.req and leaves
\* the store b.handle.oauth in the handle
HandleBuilds(op, i, b) ==
    /\ Writes(handles[i].oauth, b.handle.oauth)
    /\ request' = b.req
    /\ result' = Call(op, <<i>>, <<>>)
    /\ UNCHANGED <<urlVars, handle, inserted, handles, builder, token, now, issued>>

HandleReturnsUrl(i, u) ==
    /\ Writes(handles[i].oauth, u.handle.oauth)
    /\ result' = Call("handle.authorization_url", <<i>>, <<>>)
    /\ UNCHANGED <<urlVars, handle, request, inserted, handles, builder, token, now, issued>>

\* handles[i].authorization_url()
HandleAuthorizationUrl(i) ==
    /\ IsHandleAt(i, {"AccessTokenGrant", "DeviceCodeGrant"})
    /\ \E order \in AuthorizationOrders(HandleAt(i)) :
          HandleReturnsUrl(i, authorization_url(HandleAt(i), order))

\* handles[i].browser_authorization() of an ImplicitGrant
HandleImplicitAuthorization(i) ==
    /\ IsHandleAt(i, {"ImplicitGrant"})
    /\ \E order \in ImplicitOrders(HandleAt(i)) :
          HandleBuilds("handle.browser_authorization", i,
                       implicit_browser_authorization(HandleAt(i), order))

\* handles[i].access_token()
HandleAccessToken(i) ==
    /\ IsHandleAt(i, {"AccessTokenGrant", "DeviceCodeGrant"})
    /\ HandleBuilds("handle.access_token", i, grant_access_token(HandleAt(i)))

\* handles[i].refresh_token()
HandleRefreshToken(i) ==
    /\ IsHandleAt(i, {"AccessTokenGrant", "DeviceCodeGrant"})
    /\ HandleBuilds("handle.refresh_token", i, grant_refresh_token(HandleAt(i)))

\* the caller changes the store of the i-th handle through as_mut()
HandleChanges(op, i, s1) ==
    /\ Writes(handles[i].oauth, s1)
    /\ result' = Call(op, <<i>>, <<>>)
    /\ UNCHANGED <<urlVars, handle, request, inserted, handles, builder, token, now, issued>>

\* handles[i].as_mut().insert(p, v)
HandleInsert(i, p, v) ==
    /\ IsHandleAt(i, {"AccessTokenGrant"})
    /\ HandleChanges("handle.insert", i, insert(HandleAt(i).oauth, p, v).store)

\* handles[i].as_mut().remove(p)
HandleRemove(i, p) ==
    /\ IsHandleAt(i, {"AccessTokenGrant"})
    /\ HandleChanges("handle.remove", i, remove(HandleAt(i).oauth, p))

\* handles[i].as_mut().add_scope(scope)
HandleAddScope(i, scope) ==
    /\ IsHandleAt(i, {"AccessTokenGrant"})
    /\ HandleChanges("handle.add_scope", i, add_scope(HandleAt(i).oauth, scope))

NextHandles ==
    \/ \E p \in HandleParams : Insert(p, HandleValue)
    \/ \E p \in HandleParams : Remove(p)
    \/ AddScope(HandleScope)
    \/ ClearScopes
    \/ BuildHandle
    \/ \E i \in 1..MaxHandles : HandleAuthorizationUrl(i)
    \/ \E i \in 1..MaxHandles : HandleImplicitAuthorization(i)
    \/ \E i \in 1..MaxHandles : HandleAccessToken(i)
    \/ \E i \in 1..MaxHandles : HandleRefreshToken(i)
    \/ \E i \in 1..MaxHandles : \E p \in HandleParams : HandleInsert(i, p, HandleValue)
    \/ \E i \in 1..MaxHandles : \E p \in HandleParams : HandleRemove(i, p)
    \/ \E i \in 1..MaxHandles : HandleAddScope(i, HandleScope)

SpecHandles == InitHandles /\ [][NextHandles]_vars

(***************************************************************************)
(* Specification SpecPair: a blocking and a non-blocking handle of the same *)
(* grant, built from the same serializer by build() and build_async(), and  *)
(* the same calls made on both.  handles[1] is the blocking handle,         *)
(* handles[2] the non-blocking one.                                         *)
(***************************************************************************)
PairGrants == { g \in GrantType : HandleType(g) \in {"AccessTokenGrant", "DeviceCodeGrant"} }

\* oauth.build().<grant>() and oauth.build_async().<grant>()
PairBuild(grant) ==
    /\ handles = <<>>
    /\ memory' = <<oauth, oauth>>
    /\ handles' = <<[oauth |-> 1, grant |-> grant], [oauth |-> 2, grant |-> grant]>>
    /\ result' = Call("pair.build", <<grant>>, <<>>)
    /\ UNCHANGED <<urlVars, oauth, handle, request, inserted, builder, token, now, issued>>

\* the same method has returned on both handles: b from the blocking one,
\* a from the non-blocking one
PairReturns(op, b, a, out) ==
    /\ memory' = <<b.handle.oauth, a.handle.oauth>>
    /\ result' = Call(op, <<HandleAt(1), HandleAt(2)>>, out)
    /\ UNCHANGED <<urlVars, oauth, handle, request, inserted, handles, builder, token, now, issued>>

PairUrls(b, a) ==
    PairReturns("pair.authorization_url", b, a, [blocking |-> b.res, async |-> a.res])

PairRequests(op, b, a) ==
    PairReturns(op, b, a, [blocking |-> b.req, async |-> a.req])

PairAuthorizationUrl ==
    /\ Len(handles) = 2
    /\ \E o1 \in AuthorizationOrders(HandleAt(1)) :
       \E o2 \in AuthorizationOrders(HandleAt(2)) :
          PairUrls(authorization_url(HandleAt(1), o1),
                   async_authorization_url(HandleAt(2), o2))

PairAccessToken ==
    /\ Len(handles) = 2
    /\ PairRequests("pair.access_token", grant_access_token(HandleAt(1)),
                    async_access_token(HandleAt(2)))

PairRefreshToken ==
    /\ Len(handles) = 2
    /\ PairRequests("pair.refresh_token", grant_refresh_token(HandleAt(1)),
                    async_refresh_token(HandleAt(2)))

NextPair ==
    \/ \E g \in PairGrants : PairBuild(g)
    \/ PairAuthorizationUrl
    \/ PairAccessToken
    \/ PairRefreshToken

\* the serializers the pair is built from: no scopes, so that the form map
\* of the Authorization phase has at most three entries to iterate
PairStores ==
    { s \in GrantStores :
        /\ s.scopes = {}
        /\ get(s, "AuthorizationUrl") # Some(AuthUrlWithQuery) }

InitPair == InitGrant /\ oauth \in PairStores

SpecPair == InitPair /\ [][NextPair]_vars

(***************************************************************************)
(* Specification SpecCredential: a caller filling an                        *)
(* AuthorizationCodeCredentialBuilder and asking the built credential for   *)
(* its form.                                                                *)
(***************************************************************************)
\* what the caller passes to the builder: a blank string and a value
CredentialValues == {" ", "v1"}
\* the String fields the caller sets
CredentialFields == {"client_id", "client_secret", "redirect_uri"}

\* a builder method leaves the credential c; called is the history
BuilderSets(op, v, c, called) ==
    /\ builder' = [authorization_code_credential |-> c, called |-> called]
    /\ result' = Call(op, <<v>>, <<>>)
    /\ UNCHANGED <<urlVars, storeVars, tokenVars>>

WithAuthorizationCode(v) ==
    BuilderSets("with_authorization_code", v,
                with_authorization_code(builder.authorization_code_credential, v),
                builder.called \cup {"authorization_code"})

WithRefreshToken(v) ==
    BuilderSets("with_refresh_token", v,
                with_refresh_token(builder.authorization_code_credential, v),
                builder.called \cup {"refresh_token"})

\* with_client_id, with_client_secret, with_redirect_uri
WithField(field, v) ==
    BuilderSets("with_" \o field, v,
                [builder.authorization_code_credential EXCEPT ![field] = v],
                builder.called)

\* builder.build().form(): form runs on the clone build returns
Form ==
    /\ result' = Call("form", builder.authorization_code_credential,
                      form(builder.authorization_code_credential).res)
    /\ UNCHANGED <<urlVars, storeVars, tokenVars, builder>>

NextCredential ==
    \/ \E v \in CredentialValues : WithAuthorizationCode(v)
    \/ \E v \in CredentialValues : WithRefreshToken(v)
    \/ \E field \in CredentialFields : \E v \in CredentialValues : WithField(field, v)
    \/ Form

SpecCredential == Init /\ [][NextCredential]_vars

(***************************************************************************)
(* Specification SpecToken: a caller holding one MsalToken while the clock  *)
(* advances.                                                                *)
(***************************************************************************)
\* the token responses that arrive: expires_in as a number, as a numeric
\* string, or as a string that is no number
WireNumber(n) == [kind |-> "number", number |-> n, text |-> ""]
WireString(x) == [kind |-> "string", number |-> 0, text |-> x]

\* the fields of a payload that PhantomMsalToken does not name: none, or a
\* timestamp of the payload's own
WireExtras == { {}, {<<"timestamp", Epoch>>} }

Response(expires_in, refresh_token, extras) ==
    [access_token |-> "v1", token_type |-> "Bearer", expires_in |-> expires_in,
     refresh_token |-> refresh_token, id_token |-> None,
     additional_fields |-> extras]

Responses ==
    { Response(WireNumber(n), Some("v2"), e) : n \in {1, 2}, e \in WireExtras }
    \cup { Response(WireString(ToString(n)), Some("v2"), e) :
               n \in {1, 2}, e \in WireExtras }
    \cup { Response(WireString("soon"), None, {}) }

\* the Option fields the caller sets with with_refresh_token / set_id_token
SecretFields == {"refresh_token", "id_token"}
\* the pub fields the caller clears by assignment
ClearedFields == {"timestamp", "expires_on"}

InitToken ==
    /\ oauth = new
    /\ handle = NoHandle
    /\ request = NoRequest
    /\ inserted = [p \in OAuthParameter |-> None]
    /\ handles = <<>>
    /\ memory = <<>>
    /\ builder = NewBuilder
    /\ open_id = OpenIdNew("", "", "n1")
    /\ authorizer = NewAuthorizer
    /\ now = Epoch + 1
    /\ \E n \in ExpiresInValues :
          /\ token = msal_token_new("Bearer", n, "v1", <<>>, now)
          /\ issued = [by |-> "new", at |-> now, expires_in |-> n]
          /\ result = Call("new", <<n>>, <<>>)

\* a constructor or mutator that sets the expiry leaves the token tk
Issues(op, n, tk) ==
    /\ token' = tk
    /\ issued' = [by |-> op, at |-> now, expires_in |-> n]
    /\ result' = Call(op, <<n>>, <<>>)
    /\ UNCHANGED <<urlVars, storeVars, builder, now>>

\* another call on the token: it leaves tk and returns out
Returns(op, arg, tk, out) ==
    /\ token' = tk
    /\ result' = Call(op, arg, out)
    /\ UNCHANGED <<urlVars, storeVars, builder, now, issued>>

New(n) == Issues("new", n, msal_token_new("Bearer", n, "v1", <<>>, now))

Default == Issues("default", 0, msal_token_default(now))

\* serde_json::from_str(json): a token, or an error and the token kept
Deserializes(json, d) ==
    IF d.ok
    THEN /\ token' = d.val
         /\ issued' = [by |-> "deserialize", at |-> now,
                       expires_in |-> d.val.expires_in]
         /\ result' = Call("deserialize", <<json>>, <<>>)
         /\ UNCHANGED <<urlVars, storeVars, builder, now>>
    ELSE Returns("deserialize", <<json>>, token, d)

Deserialize(json) == Deserializes(json, deserialize(json, now))

WithExpiresIn(n) == Issues("with_expires_in", n, with_expires_in(token, n, now))

GenTimestamp == Issues("gen_timestamp", token.expires_in, gen_timestamp(token, now))

WithSome(field, s) == Returns("with_" \o field, <<s>>, with_some(token, field, s), <<>>)

EnablePiiLogging(log_pii) ==
    Returns("enable_pii_logging", <<log_pii>>, enable_pii_logging(token, log_pii), <<>>)

\* token.timestamp = None or token.expires_on = None, the fields being pub
ClearField(field) ==
    /\ token' = [token EXCEPT ![field] = None]
    /\ issued' = [issued EXCEPT !.by = "field"]
    /\ result' = Call("clear", <<field>>, <<>>)
    /\ UNCHANGED <<urlVars, storeVars, builder, now>>

IsExpired == Returns("is_expired", <<now>>, token, is_expired(token, now))

Elapsed == Returns("elapsed", <<now>>, token, elapsed(token))

\* format!("{:?}", token)
Debug == Returns("fmt", <<>>, token, fmt(token))

\* the caller sleeps for a second
Sleep ==
    /\ now < MaxTime
    /\ now' = now + 1
    /\ result' = Call("sleep", <<>>, <<>>)
    /\ UNCHANGED <<urlVars, storeVars, builder, token, issued>>

NextToken ==
    \/ \E n \in ExpiresInValues : New(n)
    \/ Default
    \/ \E json \in Responses : Deserialize(json)
    \/ \E n \in ExpiresInValues : WithExpiresIn(n)
    \/ GenTimestamp
    \/ \E field \in SecretFields : WithSome(field, "v2")
    \/ \E log_pii \in BOOLEAN : EnablePiiLogging(log_pii)
    \/ \E field \in ClearedFields : ClearField(field)
    \/ IsExpired
    \/ Elapsed
    \/ Debug
    \/ Sleep

SpecToken == InitToken /\ [][NextToken]_vars

(***************************************************************************)
(* Specification SpecIdToken: a caller parsing redirect fragments and JSON  *)
(* texts into IdTokens.                                                     *)
(***************************************************************************)
\* the fields a response carries: those of the options that are set
Present(options) ==
    LET kept == SelectSeq(options, LAMBDA o : o[2] # None)
    IN [i \in 1..Len(kept) |-> <<kept[i][1], Unwrap(kept[i][2])>>]

IdTokenFields ==
    { Present(<< <<"code", code>>, <<"id_token", Some(id)>>, <<"state", state>>,
                 <<"session_state", session_state>>, <<"nonce", nonce>> >>) :
        code \in {None, Some("c1"), Some("c2")},
        id \in {"t1", "t2"},
        state \in {None, Some("s1")},
        session_state \in {None, Some("ss1")},
        nonce \in {None, Some("n1")} }

RECURSIVE FormText(_)
\* name=value&name=value
FormText(fields) ==
    IF fields = <<>> THEN <<>>
    ELSE <<fields[1][1], Equals, fields[1][2]>>
         \o (IF Len(fields) > 1 THEN <<Amp>> ELSE <<>>)
         \o FormText(Tail(fields))

RECURSIVE JsonMembers(_)
\* "name":"value","name":"value"
JsonMembers(fields) ==
    IF fields = <<>> THEN <<>>
    ELSE <<Quote, fields[1][1], Quote, ":", Quote, fields[1][2], Quote>>
         \o (IF Len(fields) > 1 THEN <<",">> ELSE <<>>)
         \o JsonMembers(Tail(fields))

\* the JSON object text of the fields
JsonText(fields) == <<"{">> \o JsonMembers(fields) \o <<"}">>

\* the JSON string whose content is the wire text of the fields
JsonStringText(fields) == <<Quote>> \o FormText(fields) \o <<Quote>>

WireText(wire, fields) ==
    CASE wire = "form" -> FormText(fields)
      [] wire = "json" -> JsonText(fields)
      [] wire = "json_string" -> JsonStringText(fields)

\* the call made, with the fields and the wire form its text was written in
Parses(op, wire, fields, out) ==
    /\ result' = Call(op, [form |-> wire, fields |-> fields], out)
    /\ UNCHANGED <<storeVars, tokenVars, builder, urlVars>>

\* IdToken::from_str(text) / IdToken::try_from(text)
FromStr(wire, fields) ==
    Parses("from_str", wire, fields, from_str(WireText(wire, fields)))

\* IdToken::from_str of a text without a field: empty, or a lone &
FromStrEmpty(text) ==
    Parses("from_str", "none", text, from_str(text))

\* serde_json::from_str::<IdToken>(text)
DeserializeIdToken(wire, fields) ==
    Parses("deserialize", wire, fields, serde_json_from_slice(WireText(wire, fields)))

NextIdToken ==
    \/ \E wire \in {"form", "json"} : \E fields \in IdTokenFields :
          FromStr(wire, fields)
    \/ \E text \in {<<>>, <<Amp>>} : FromStrEmpty(text)
    \/ \E wire \in {"json", "json_string"} : \E fields \in IdTokenFields :
          DeserializeIdToken(wire, fields)

SpecIdToken == Init /\ [][NextIdToken]_vars

(***************************************************************************)
(* Specification SpecOpenId: a caller configuring one                       *)
(* OpenIdAuthorizationUrlBuilder.                                           *)
(***************************************************************************)
OpenIdScopes ==
    { <<>>, <<"openid">>, <<"User.Read">>, <<"openid", "User.Read">> }
OpenIdResponseTypes == { <<"code">>, <<"id_token">> }

\* a builder method leaves the parameters b and returns out
OpenIdCall(op, b, out) ==
    /\ open_id' = b
    /\ result' = Call(op, <<open_id>>, out)
    /\ UNCHANGED <<storeVars, tokenVars, builder, authorizer>>

\* OpenIdAuthorizationUrl::builder(): a new builder, unless the random
\* source fails
OpenIdBuilder(random) ==
    IF random.ok THEN OpenIdCall("builder", OpenIdNew("", "", random.val), Ok(<<>>))
    ELSE OpenIdCall("builder", open_id, Err(random.err))

OpenIdWithScope(scopes) ==
    OpenIdCall("with_scope", with_scope(open_id, scopes), Ok(<<>>))

OpenIdWithResponseType(response_type) ==
    OpenIdCall("with_response_type", with_response_type(open_id, response_type),
               Ok(<<>>))

OpenIdSetsDefaults(d) == OpenIdCall("with_default_scope", d.builder, d.res)

OpenIdWithDefaultScope(random) ==
    OpenIdSetsDefaults(with_default_scope(open_id, random))

\* builder.build(): a clone of the parameters
OpenIdBuild == OpenIdCall("build", open_id, Ok(open_id))

NextOpenId ==
    \/ \E random \in RandomOutcomes : OpenIdBuilder(random)
    \/ \E scopes \in OpenIdScopes : OpenIdWithScope(scopes)
    \/ \E response_type \in OpenIdResponseTypes : OpenIdWithResponseType(response_type)
    \/ \E random \in RandomOutcomes : OpenIdWithDefaultScope(random)
    \/ OpenIdBuild

SpecOpenId == Init /\ [][NextOpenId]_vars

(***************************************************************************)
(* Specification SpecAuthorizer: a caller configuring one                   *)
(* AuthorizationCodeAuthorizationUrlBuilder and asking for the URL.         *)
(***************************************************************************)
MalformedRedirectUri == "https::/localhost:8080"
AuthorizerClientIds == {" ", "client_id"}
AuthorizerRedirectUris == {" ", MalformedRedirectUri, "https://localhost:8080"}
\* no scope, one, and two of which the Vec names the last first
AuthorizerScopes == { <<>>, <<ScopeSeq[1]>>, <<ScopeSeq[NumScopes], ScopeSeq[1]>> }

\* a builder method leaves the parameters c and returns out
AuthorizerCall(op, c, out) ==
    /\ authorizer' = c
    /\ result' = Call(op, <<authorizer>>, out)
    /\ UNCHANGED <<storeVars, tokenVars, builder, open_id>>

\* AuthorizationCodeAuthorizationUrl::builder()
AuthorizerBuilder == AuthorizerCall("builder", NewAuthorizer, <<>>)

AuthorizerWithClientId(v) ==
    AuthorizerCall("with_client_id", [authorizer EXCEPT !.client_id = v], <<>>)

AuthorizerWithRedirectUri(v) ==
    AuthorizerCall("with_redirect_uri", [authorizer EXCEPT !.redirect_uri = v], <<>>)

AuthorizerWithScopes(scopes) ==
    AuthorizerCall("with_scopes", [authorizer EXCEPT !.scopes = scopes], <<>>)

AuthorizerWithState(v) ==
    AuthorizerCall("with_state", [authorizer EXCEPT !.state = Some(v)], <<>>)

AuthorizerWithLoginHint(v) ==
    AuthorizerCall("with_login_hint", [authorizer EXCEPT !.login_hint = Some(v)], <<>>)

\* builder.build().url()
Url == AuthorizerCall("url", authorizer, url(authorizer))

NextAuthorizer ==
    \/ AuthorizerBuilder
    \/ \E v \in AuthorizerClientIds : AuthorizerWithClientId(v)
    \/ \E v \in AuthorizerRedirectUris : AuthorizerWithRedirectUri(v)
    \/ \E scopes \in AuthorizerScopes : AuthorizerWithScopes(scopes)
    \/ AuthorizerWithState("v1")
    \/ AuthorizerWithLoginHint("v1")
    \/ Url

SpecAuthorizer == Init /\ [][NextAuthorizer]_vars

(***************************************************************************)
(* Properties of the store, checked under Spec.                             *)
(***************************************************************************)
Listed(pairs) == { pairs[i] : i \in 1..Len(pairs) }

IsInsertCall == result.op \in {"insert", "setter"}
IsInvalidUrlInsert ==
    /\ IsInsertCall
    /\ result.arg[1] \in UrlTyped
    /\ ~url_parse(result.arg[2]).ok

\* C1: an insert of a value that does not parse as a URL on a URL-typed
\* parameter returns to its caller (with an error value) instead of
\* aborting, and get still returns what was stored before the call.
C1_InvalidUrlIsReturnedAsError ==
    IsInvalidUrlInsert =>
        /\ ~result.out.panic
        /\ get(oauth, result.arg[1]) = get(result.out.before, result.arg[1])

C8_RemovedIsNotContained ==
    result.op = "remove" => ~contains(oauth, result.arg[1])

\* what the claim expects of params: the listed fields present in the
\* store, and the joined scopes when Scope is listed and the set is not empty
ExpectedKeys(s, L) ==
    { alias(p) : p \in { q \in L \ {"Scope"} : contains_key(s, alias(q)) } }
    \cup (IF "Scope" \in L /\ s.scopes # {} THEN {"scope"} ELSE {})

StoredTokenRefresh(s) ==
    IF IsSome(s.access_token) THEN Unwrap(s.access_token).refresh_token ELSE None

NeedsRefreshFallback(s, L) ==
    "RefreshToken" \in L /\ ~contains_key(s, "refresh_token")

\* C10 as stated: params returns a map of exactly the listed fields that are
\* present, plus the joined scopes when Scope is listed and the scope set is
\* not empty; an absent listed field never makes it fail.
C10_ParamsNeverFails ==
    result.op = "params" =>
        LET L == Listed(result.arg)
            res == result.out
        IN /\ res.ok
           /\ DOMAIN res.val = ExpectedKeys(oauth, L)
           /\ \A k \in DOMAIN res.val :
                 res.val[k] = IF k = "scope" THEN join_scopes(oauth, " ")
                              ELSE oauth.credentials[k]

\* C10 as amended: as stated, except that (a) a listed refresh_token that is
\* absent is taken from the stored token response, and params fails with
\* the missing refresh_token error when that has none either, and (b) when
\* Scope is listed and the scope set is empty, a value stored under the
\* alias "scope" by insert is encoded like any other field.
C10_ParamsMap ==
    result.op = "params" =>
        LET L == Listed(result.arg)
            res == result.out
            fallback == NeedsRefreshFallback(oauth, L)
            rt == StoredTokenRefresh(oauth)
        IN IF fallback /\ rt = None
           THEN ~res.ok /\ res.err = error_from("RefreshToken")
           ELSE /\ res.ok
                /\ DOMAIN res.val =
                      ExpectedKeys(oauth, L)
                      \cup (IF fallback THEN {"refresh_token"} ELSE {})
                      \cup (IF "Scope" \in L /\ contains_key(oauth, "scope")
                            THEN {"scope"} ELSE {})
                /\ \A k \in DOMAIN res.val :
                      res.val[k] =
                          IF k = "scope" /\ oauth.scopes # {}
                          THEN join_scopes(oauth, " ")
                          ELSE IF contains_key(oauth, k) THEN oauth.credentials[k]
                          ELSE Unwrap(rt)

\* params has encoded a list with present and absent fields and the scopes
C10_Witness ==
    /\ result.op = "params"
    /\ result.out.ok
    /\ "scope" \in DOMAIN result.out.val
    /\ "client_id" \in DOMAIN result.out.val
    /\ \E p \in Listed(result.arg) : alias(p) \notin DOMAIN result.out.val
    /\ oauth.scopes # {}

(***************************************************************************)
(* Properties of the request descriptors, checked under SpecRequest.        *)
(***************************************************************************)
TokenOps == {"authorization", "access_token", "refresh_token"}
BuilderOps == TokenOps \cup {"browser_authorization"}

\* the phase a builder method encodes and the endpoint it reads
PhaseOf(op) ==
    CASE op = "access_token" -> "AccessToken"
      [] op = "refresh_token" -> "RefreshToken"
      [] OTHER -> "Authorization"

EndpointOf(op) ==
    CASE op = "access_token" -> "AccessTokenUrl"
      [] op = "refresh_token" -> "RefreshTokenUrl"
      [] OTHER -> "AuthorizationUrl"

LacksEndpoint(h, op) == ~contains_key(h.oauth, alias(EndpointOf(op)))

LacksRefreshToken(h, op) ==
    /\ "RefreshToken" \in Listed(available_credentials(h.grant, PhaseOf(op)))
    /\ ~contains_key(h.oauth, "refresh_token")
    /\ StoredTokenRefresh(h.oauth) = None

\* the failure a builder method meets on the handle h, if any: a token
\* method reads the endpoint first, browser_authorization the form map
FailureMet(h, op) ==
    IF op \in TokenOps
    THEN IF LacksEndpoint(h, op) THEN Some(credential_error(EndpointOf(op)))
         ELSE IF LacksRefreshToken(h, op) THEN Some(error_from("RefreshToken"))
         ELSE None
    ELSE IF LacksRefreshToken(h, op) THEN Some(error_from("RefreshToken"))
         ELSE IF LacksEndpoint(h, op) THEN Some(credential_error(EndpointOf(op)))
         ELSE None

ScopeListed(grant) == "Scope" \in Listed(available_credentials(grant, "Authorization"))

\* the names of the pairs of a query, in order
QueryNames(query) == [i \in 1..Len(query) |-> query[i][1]]

Occurrences(names, k) == Cardinality({ i \in 1..Len(names) : names[i] = k })

\* C3: with an empty scope set, encode_query with scope among the required
\* fields and authorization_url() of a handle whose grant lists scope (its
\* endpoint being configured) return the required-value error and never a
\* query or a URL without a scope pair.
C3_EmptyScopeIsRejected ==
    /\ (/\ result.op = "encode_query"
        /\ "Scope" \in Listed(result.arg[2])
        /\ result.arg[3].scopes = {})
          => ~result.out.ok
    /\ (/\ result.op = "authorization_url"
        /\ ScopeListed(result.arg.grant)
        /\ result.arg.oauth.scopes = {}
        /\ contains_key(result.arg.oauth, "authorization_url"))
          => /\ ~result.out.ok
             /\ result.out.err = required("scope")

\* every field of the grant's Authorization table is set
AllAuthorizationFieldsSet(h) ==
    /\ available_credentials(h.grant, "Authorization") # <<>>
    /\ contains_key(h.oauth, "authorization_url")
    /\ \A f \in Listed(available_credentials(h.grant, "Authorization")) :
          IF f = "Scope" THEN h.oauth.scopes # {}
          ELSE contains_key(h.oauth, alias(f))

\* C4: when every Authorization field of the grant is set, authorization_url()
\* returns a URL whose query names each of these fields once and nothing
\* else, also when the stored endpoint URL has a query of its own.
C4_EachFieldOnce ==
    (result.op = "authorization_url" /\ AllAuthorizationFieldsSet(result.arg)) =>
        /\ result.out.ok
        /\ LET names == QueryNames(result.out.val.query)
               fields == { alias(f) :
                             f \in Listed(available_credentials(result.arg.grant,
                                                                "Authorization")) }
           IN /\ \A k \in fields : Occurrences(names, k) = 1
              /\ \A i \in 1..Len(names) : names[i] \in fields

(***************************************************************************)
(* Properties of the normalisation and of encode_uri, checked under         *)
(* SpecGrant.                                                               *)
(***************************************************************************)
\* refresh_token() or access_token() has run on a handle whose store had no
\* grant_type
NormalisedWithoutGrantType(op) ==
    /\ result.op = op
    /\ ~contains_key(result.arg.oauth, "grant_type")

AuthorizationCodeGrants == {"CodeFlow", "AuthorizationCode", "OpenId"}

\* C5 as stated: on a store without grant_type, the normalisation of the
\* RefreshToken phase leaves grant_type = "refresh_token" for every grant
\* that has the phase, and that of the AccessToken phase of CodeFlow,
\* AuthorizationCode and OpenId leaves grant_type = "authorization_code".
C5_RefreshInjectsRefreshToken ==
    /\ NormalisedWithoutGrantType("refresh_token") =>
          get(handle.oauth, "GrantType") = Some("refresh_token")
    /\ (/\ NormalisedWithoutGrantType("access_token")
        /\ result.arg.grant \in AuthorizationCodeGrants) =>
          get(handle.oauth, "GrantType") = Some("authorization_code")

\* C5 as amended: as stated for CodeFlow, AuthorizationCode, DeviceCode,
\* OpenId and ResourceOwnerPasswordCredentials; for ClientCredentials the
\* normalisation of the RefreshToken phase leaves
\* grant_type = "client_credentials".
C5_InjectedGrantType ==
    /\ NormalisedWithoutGrantType("refresh_token") =>
          get(handle.oauth, "GrantType") =
              IF result.arg.grant = "ClientCredentials"
              THEN Some("client_credentials")
              ELSE Some("refresh_token")
    /\ (/\ NormalisedWithoutGrantType("access_token")
        /\ result.arg.grant \in AuthorizationCodeGrants) =>
          get(handle.oauth, "GrantType") = Some("authorization_code")

\* refresh_token() has run on a ClientCredentials handle without grant_type
C5_Witness ==
    /\ NormalisedWithoutGrantType("refresh_token")
    /\ result.arg.grant = "ClientCredentials"
    /\ IsSome(get(handle.oauth, "GrantType"))

\* what entry_with(p, v) does when it returns: the value the parameter had
\* and the store untouched, or the value passed and the store with it
EntryKept(before, after, p, v, val) ==
    IF contains_key(before, alias(p))
    THEN val = before.credentials[alias(p)] /\ after = before
    ELSE /\ val = v
         /\ after = [before EXCEPT !.credentials = MapInsert(@, alias(p), v)]

\* no parameter that had a value has another one (or none) now
Survives(before, after) ==
    \A k \in DOMAIN before.credentials :
        /\ k \in DOMAIN after.credentials
        /\ after.credentials[k] = before.credentials[k]

\* the values set before a normalising call are the values after it
SetValuesSurvive ==
    /\ result.op \in TokenOps => Survives(result.arg.oauth, handle.oauth)
    /\ result.op = "encode_uri" => Survives(result.arg[3], oauth)

ImplicitGrants == {"TokenFlow", "Implicit"}

IsRejectedPhase ==
    /\ result.op = "encode_uri"
    /\ result.arg[1] \in ImplicitGrants
    /\ result.arg[2] \in {"AccessToken", "RefreshToken"}

\* C9: encode_uri of the AccessToken or RefreshToken phase of TokenFlow and
\* Implicit returns the grant-not-supported error, whatever the store
\* holds, and leaves the store alone; no token request is ever built from a
\* handle of these grants.
C9_ImplicitGrantsRejectTokenPhases ==
    /\ IsRejectedPhase =>
          /\ ~result.out.ok
          /\ result.out.err.kind = "grant_not_supported"
          /\ oauth = result.arg[3]
    /\ result.op \in TokenOps => result.arg.grant \notin ImplicitGrants
    /\ request.type = "AccessTokenRequest" => handle.grant \notin ImplicitGrants

\* encode_uri has rejected the RefreshToken phase of Implicit on a store
\* that holds a refresh token, a client id and scopes
C9_Witness ==
    /\ IsRejectedPhase
    /\ result.arg[1] = "Implicit"
    /\ result.arg[2] = "RefreshToken"
    /\ contains_key(oauth, "refresh_token")
    /\ contains_key(oauth, "client_id")
    /\ oauth.scopes # {}
    /\ ~result.out.ok

(***************************************************************************)
(* The refresh-token fallback of the form map, checked under Spec.          *)
(***************************************************************************)
IsRefreshTokenEncoded ==
    /\ result.op = "params"
    /\ "RefreshToken" \in Listed(result.arg)

\* C11: when refresh_token is among the fields params encodes, the form map
\* carries the store's refresh_token if the store has one; otherwise the
\* refresh_token of the stored token response if there is one; params
\* reports the missing refresh_token when neither exists, and does not fail
\* in any other case.
C11_RefreshTokenFallback ==
    /\ IsRefreshTokenEncoded =>
          IF contains_key(oauth, "refresh_token")
          THEN /\ result.out.ok
               /\ result.out.val["refresh_token"] = oauth.credentials["refresh_token"]
          ELSE IF IsSome(StoredTokenRefresh(oauth))
               THEN /\ result.out.ok
                    /\ result.out.val["refresh_token"] = Unwrap(StoredTokenRefresh(oauth))
               ELSE /\ ~result.out.ok
                    /\ result.out.err = error_from("RefreshToken")
    /\ (result.op = "params" /\ ~IsRefreshTokenEncoded) => result.out.ok

\* params has taken the refresh_token from the stored token response, the
\* store having none of its own
C11_Witness ==
    /\ IsRefreshTokenEncoded
    /\ ~contains_key(oauth, "refresh_token")
    /\ IsSome(StoredTokenRefresh(oauth))
    /\ result.out.ok
    /\ result.out.val["refresh_token"] = Unwrap(StoredTokenRefresh(oauth))

(***************************************************************************)
(* Ownership of the stores, checked under SpecHandles.                      *)
(***************************************************************************)
\* the parameters, scopes and stored token of the serializer and of every
\* handle, the serializer first
Stores ==
    <<oauth>> \o [i \in 1..Len(handles) |-> HandleAt(i).oauth]

HandleOps ==
    {"handle.authorization_url", "handle.browser_authorization",
     "handle.access_token", "handle.refresh_token", "handle.insert",
     "handle.remove", "handle.add_scope"}

\* the position in Stores of the store a call operates on: that of the
\* handle it names, the serializer's, or none for build
Operated(call) ==
    IF call.op \in HandleOps THEN call.arg[1] + 1
    ELSE IF call.op = "build" THEN 0
    ELSE 1

\* C12: a handle's store is a copy of the serializer's taken at build();
\* whatever the interleaving of operations on the serializer and on the
\* handles built from it, an operation changes the parameters, scopes and
\* stored token of the one it operates on only.
C12_HandlesOwnTheirStore ==
    [][ /\ \A k \in 1..Len(Stores) : k # Operated(result') => Stores'[k] = Stores[k]
        /\ result'.op = "build" => Stores'[Len(Stores')] = oauth
      ]_vars

\* a normalisation has run on the second of two handles, and the serializer
\* and the two handles hold three different stores
C12_Witness ==
    /\ Len(handles) = 2
    /\ result.op = "handle.refresh_token"
    /\ result.arg[1] = 1
    /\ Stores[1] # Stores[2]
    /\ Stores[2] # Stores[3]
    /\ Stores[1] # Stores[3]
    /\ get(Stores[2], "GrantType") = Some("refresh_token")
    /\ get(Stores[1], "GrantType") = Some(HandleValue)

(***************************************************************************)
(* Side effects of building a request, checked under SpecRequest.           *)
(***************************************************************************)
\* C13: browser_authorization(), authorization(), access_token() and
\* refresh_token() of a grant handle leave the handle's credential store
\* (parameters, scopes, stored token) as it was before the call.
C13_BuildingLeavesTheStoreAlone ==
    result.op \in BuilderOps => handle.oauth = result.arg.oauth

(***************************************************************************)
(* Order of the query of an authorization URL, checked under SpecUrl.       *)
(***************************************************************************)
\* the aliases of the grant's Authorization fields, in declaration order
DeclaredNames(grant) ==
    [i \in 1..Len(available_credentials(grant, "Authorization")) |->
        alias(available_credentials(grant, "Authorization")[i])]

\* the place of a name in a sequence of names, 0 if it is not there
PlaceIn(names, k) ==
    IF \E i \in 1..Len(names) : names[i] = k
    THEN CHOOSE i \in 1..Len(names) : names[i] = k
    ELSE 0

\* the names that are table fields follow one another as in the table
InDeclarationOrder(names, declared) ==
    \A i, j \in 1..Len(names) :
        (i < j /\ PlaceIn(declared, names[i]) > 0 /\ PlaceIn(declared, names[j]) > 0)
            => PlaceIn(declared, names[i]) < PlaceIn(declared, names[j])

\* C14: the query of the URL authorization_url() returns is determined by
\* the grant and the store: its fields appear in the declaration order of
\* the grant table.
C14_QueryInDeclarationOrder ==
    (result.op = "authorization_url" /\ result.out.ok) =>
        InDeclarationOrder(QueryNames(result.out.val.query),
                           DeclaredNames(result.arg.grant))

(***************************************************************************)
(* Properties of AuthorizationCodeCredential::form, checked under           *)
(* SpecCredential.                                                          *)
(***************************************************************************)
IsBlank(v) == trim(v) = ""
IsBlankOrNone(o) == o = None \/ IsBlank(Unwrap(o))

\* C15: when with_authorization_code and with_refresh_token were both
\* called on the builder, in whatever order and whatever else was set,
\* form() of the built credential fails with the "cannot be set at the same
\* time" error.
C15_BothSetIsRejected ==
    (result.op = "form" /\ builder.called = {"authorization_code", "refresh_token"}) =>
        result.out = required_value("code or refresh_token", Some(MutuallyExclusive))

\* the credential lacks what form needs: client_id or client_secret is
\* blank, or it does not have exactly one of authorization code and
\* refresh token, or the one it has is blank
LacksRequired(c) ==
    \/ IsBlank(c.client_id)
    \/ IsBlank(c.client_secret)
    \/ (c.authorization_code = None) = (c.refresh_token = None)
    \/ IsBlankOrNone(c.authorization_code) /\ IsBlankOrNone(c.refresh_token)

\* C16: form() returns a required-value failure and no form map whenever
\* client_id is blank, client_secret is blank, or there is not exactly one
\* non-blank authorization code or refresh token; it returns a form map
\* only when the credential has all of them.
C16_FormNeedsRequiredValues ==
    result.op = "form" =>
        /\ LacksRequired(result.arg) =>
              (~result.out.ok /\ result.out.err.kind = "required_value_missing")
        /\ result.out.ok => ~LacksRequired(result.arg)

\* form has returned the form map of a credential with a refresh token
C16_Witness ==
    /\ result.op = "form"
    /\ result.out.ok
    /\ ~LacksRequired(result.arg)
    /\ result.arg.refresh_token = Some("v1")
    /\ result.out.val["refresh_token"] = "v1"
    /\ result.out.val["grant_type"] = "refresh_token"
    /\ result.out.val["client_id"] = "v1"

(***************************************************************************)
(* Properties of MsalToken, checked under SpecToken.                        *)
(***************************************************************************)
\* the operations that compute the expiry from the clock and expires_in
ExpirySetters == {"new", "deserialize", "with_expires_in", "gen_timestamp"}

\* the token holds the expiry that was computed when it was issued
ExpiryAsIssued ==
    /\ token.expires_in = issued.expires_in
    /\ token.timestamp = Some(issued.at)
    /\ token.expires_on = Some(issued.at + issued.expires_in)

\* C17 as stated: every token reachable through the constructors and
\* mutators, default included, satisfies expires_on = timestamp + expires_in
\* with timestamp the clock value of its construction or of the last
\* with_expires_in / gen_timestamp.
C17_ExpiresOnFromTimestamp ==
    issued.by # "field" => ExpiryAsIssued

\* C17, amended: a token from new, deserialization, with_expires_in or
\* gen_timestamp, whatever with_* setters follow, satisfies
\* expires_on = timestamp + expires_in with timestamp the clock value of that
\* call; a token from default has timestamp = the clock value of its
\* construction, expires_in = 0 and expires_on = the Unix epoch.
C17_ExpiresOnFromTimestampButDefault ==
    /\ issued.by \in ExpirySetters => ExpiryAsIssued
    /\ issued.by = "default" =>
          /\ token.expires_in = 0
          /\ token.timestamp = Some(issued.at)
          /\ token.expires_on = Some(Epoch)

C17_Witness ==
    /\ result.op = "with_refresh_token"
    /\ issued.by = "with_expires_in"
    /\ issued.at > Epoch + 1
    /\ issued.expires_in = 2
    /\ now > issued.at
    /\ token.expires_on = Some(issued.at + 2)

\* what is_expired returned at the clock value of the call
IsExpiredAnswer ==
    result.op = "is_expired" =>
        /\ issued.by \in ExpirySetters /\ IsSome(token.expires_on) =>
              (result.out <=> result.arg[1] > issued.at + issued.expires_in)
        /\ token.expires_on = None => result.out = FALSE

\* an expired token stays expired while no call sets its expiry again and
\* the caller does not assign to its fields
StaysExpired ==
    (is_expired(token, now) /\ issued' = issued /\ result'.op # "clear")
        => is_expired(token', now')

\* C18: for a token whose expiry was set by with_expires_in(n), new or
\* deserialization at clock time t, is_expired() at clock time t2 is false
\* when t2 <= t + n and true when t2 > t + n; once true it stays true until
\* the expiry is set again; a token without expires_on is never expired.
C18_IsExpired == []IsExpiredAnswer /\ [][StaysExpired]_vars

C18_Witness ==
    /\ result.op = "is_expired"
    /\ result.out = TRUE
    /\ issued.by = "with_expires_in"
    /\ issued.expires_in = 1
    /\ result.arg[1] = issued.at + 2

\* C19: elapsed() returns the time left until the token expires, measured at
\* the moment of the call, and none when timestamp or expires_on is absent.
C19_ElapsedIsTimeLeft ==
    result.op = "elapsed" =>
        result.out = IF token.timestamp = None \/ token.expires_on = None
                     THEN None
                     ELSE Some(Unwrap(token.expires_on) - result.arg[1])

\* the values a secret field can hold
SecretStrings == {"", "v1", "v2"}
SecretOptions == {None} \cup {Some(x) : x \in SecretStrings}

\* the tokens that differ from tk in the three secret fields only
SecretVariants(tk) ==
    { [tk EXCEPT !.access_token = a, !.refresh_token = r, !.id_token = i] :
        a \in SecretStrings, r \in SecretOptions, i \in SecretOptions }

\* the rendering of a token with PII logging off is that of all its variants
RendersNoSecret ==
    ~token.log_pii => \A other \in SecretVariants(token) : fmt(other) = fmt(token)

\* a token fresh from a constructor has PII logging off
FreshIsRedacted ==
    (result.op \in {"new", "default", "deserialize"} /\ result.out = <<>>)
        => ~token.log_pii

\* PII logging goes on by enable_pii_logging(true) only
OnlyEnabledByCaller ==
    (token'.log_pii /\ ~token.log_pii) =>
        (result'.op = "enable_pii_logging" /\ result'.arg = <<TRUE>>)

\* C20: unless enable_pii_logging(true) was called, the Debug rendering does
\* not depend on access_token, refresh_token or id_token (tokens differing
\* only there render alike), and a token fresh from new, default or
\* deserialization has PII logging off.
C20_DebugRedactsSecrets ==
    [](RendersNoSecret /\ FreshIsRedacted) /\ [][OnlyEnabledByCaller]_vars

C20_Witness ==
    /\ result.op = "fmt"
    /\ ~token.log_pii
    /\ token.access_token = "v1"
    /\ token.refresh_token = Some("v2")
    /\ token.id_token = Some("v2")
    /\ result.out[1] = <<"bearer_token", RedactedBearer>>

(***************************************************************************)
(* Deserialization of a token response, checked under SpecToken.            *)
(***************************************************************************)
\* the payload's expires_in is the JSON number n or the JSON string of the
\* decimal digits of n
IsWireOf(wire, n) ==
    \/ wire.kind = "number" /\ wire.number = n
    \/ wire.kind = "string" /\ wire.text = ToString(n)

\* the number and the string form of one payload give the same token
BothFormsAgree ==
    \A n \in ExpiresInValues : \A e \in WireExtras :
        /\ deserialize(Response(WireNumber(n), None, e), now).ok
        /\ deserialize(Response(WireNumber(n), None, e), now)
             = deserialize(Response(WireString(ToString(n)), None, e), now)

\* what the last deserialization made of its payload
DeserializedAsSent ==
    result.op = "deserialize" =>
        \A n \in ExpiresInValues :
            IsWireOf(result.arg[1].expires_in, n) =>
                /\ result.out = <<>>
                /\ token.expires_in = n
                /\ token.timestamp = Some(now)
                /\ token.expires_on = Some(now + n)

\* C21: a token response whose expires_in is the JSON number n and one whose
\* expires_in is the JSON string of the digits of n both deserialize, to the
\* same expires_in = n, and the timestamp of both is the clock value at
\* deserialization, not a timestamp field of the payload.
C21_NumberOrStringExpiresIn ==
    BothFormsAgree /\ DeserializedAsSent

C21_Witness ==
    /\ result.op = "deserialize"
    /\ result.out = <<>>
    /\ result.arg[1].expires_in = WireString("2")
    /\ result.arg[1].additional_fields = {<<"timestamp", Epoch>>}
    /\ token.expires_in = 2
    /\ now > Epoch + 1
    /\ token.timestamp = Some(now)

(***************************************************************************)
(* The wire forms of an IdToken, checked under SpecIdToken.                 *)
(***************************************************************************)
\* the value of the field of this name, if the fields have one
FieldOf(fields, name) ==
    IF \E i \in 1..Len(fields) : fields[i][1] = name
    THEN Some(fields[CHOOSE i \in 1..Len(fields) : fields[i][1] = name][2])
    ELSE None

IdTokenNames == {"code", "id_token", "state", "session_state"}

\* the names of the fields that are none of the four
OtherNames(fields) == { fields[i][1] : i \in 1..Len(fields) } \ IdTokenNames

\* the IdToken that carries these fields
IdTokenOf(fields) ==
    [code |-> FieldOf(fields, "code"),
     id_token |-> IF FieldOf(fields, "id_token") = None THEN ""
                  ELSE Unwrap(FieldOf(fields, "id_token")),
     state |-> FieldOf(fields, "state"),
     session_state |-> FieldOf(fields, "session_state"),
     additional_fields |-> [n \in OtherNames(fields) |-> Unwrap(FieldOf(fields, n))],
     log_pii |-> FALSE]

\* C22: from_str accepts the JSON object text and the form-urlencoded text
\* alike: either form of the same field values yields the IdToken with code,
\* id_token, state and session_state from the like-named fields and every
\* other field in additional_fields.
C22_BothWireFormsAlike ==
    (result.op = "from_str" /\ result.arg.form \in {"form", "json"}) =>
        result.out = Ok(IdTokenOf(result.arg.fields))

(***************************************************************************)
(* The default scope of OpenID Connect, checked under SpecOpenId.           *)
(***************************************************************************)
\* C23: the scope of an OpenIdAuthorizationUrl built with with_default_scope()
\* contains openid together with profile, email, id_token and
\* offline_access: the openid scope that was included before the call is
\* still there after it.
C23_DefaultScopeKeepsOpenId ==
    (/\ result.op = "with_default_scope"
     /\ result.out.ok
     /\ "openid" \in Elements(result.arg[1].scope))
        => ({"openid"} \cup Elements(DefaultScope)) \subseteq Elements(open_id.scope)

(***************************************************************************)
(* The authorization URL of the authorization code flow, checked under      *)
(* SpecAuthorizer.                                                          *)
(***************************************************************************)
\* what url() returned for the parameters c
UrlAnswer(c, out) ==
    /\ ~out.panic
    /\ IsBlank(c.redirect_uri) => out.res = Err(error_from("RedirectUri"))
    /\ (~IsBlank(c.redirect_uri) /\ IsBlank(c.client_id))
          => out.res = Err(error_from("ClientId"))
    /\ (~IsBlank(c.redirect_uri) /\ ~IsBlank(c.client_id)) => out.res.ok

\* C24: url() returns a URL for every non-blank client_id and non-blank
\* redirect_uri, with or without scopes and also when redirect_uri is no
\* well-formed URL; it returns an error and no URL when redirect_uri or
\* client_id is blank, and reports redirect_uri when both are.
C24_UrlNeedsClientAndRedirect ==
    result.op = "url" => UrlAnswer(result.arg[1], result.out)

C24_Witness ==
    /\ result.op = "url"
    /\ result.arg[1].redirect_uri = MalformedRedirectUri
    /\ result.arg[1].client_id = "client_id"
    /\ result.arg[1].scopes = <<ScopeSeq[NumScopes], ScopeSeq[1]>>
    /\ result.out.res.ok
    /\ <<"scope", Join(ScopeSeq, " ")>> \in Elements(result.out.res.val.query)
    /\ <<"redirect_uri", MalformedRedirectUri>> \in Elements(result.out.res.val.query)

(***************************************************************************)
(* The grant_type of the token requests of one handle, checked under        *)
(* SpecRequest: the serializer is not touched after Init and the handle is  *)
(* written by its own builder methods only, so the caller has set          *)
(* grant_type exactly when the serializer holds it.                         *)
(***************************************************************************)
\* the grant_type the phase of a token method asks for
GrantTypeOf(op) ==
    IF op = "refresh_token" THEN "refresh_token" ELSE "authorization_code"

\* a token method of an AuthorizationCode handle whose caller never set
\* grant_type has returned a descriptor with a form map
ReturnedForm(op) ==
    /\ result.op = op
    /\ result.arg.grant = "AuthorizationCode"
    /\ ~contains_key(oauth, "grant_type")
    /\ result.out.error = None

\* C25: on an AuthorizationCode handle whose caller never set grant_type,
\* every descriptor refresh_token() returns carries grant_type =
\* "refresh_token" in its form map and every descriptor access_token()
\* returns carries grant_type = "authorization_code", whatever was called on
\* the handle before.
C25_GrantTypeFollowsThePhase ==
    \A op \in {"access_token", "refresh_token"} :
        ReturnedForm(op) => result.out.params["grant_type"] = GrantTypeOf(op)

(***************************************************************************)
(* The two paths that build a DeviceCode token request, checked under       *)
(* SpecRequest.                                                             *)
(***************************************************************************)
\* the form map that holds the pairs of an encoder
RECURSIVE FormMapOf(_, _)
FormMapOf(pairs, map) ==
    IF pairs = <<>> THEN map
    ELSE FormMapOf(Tail(pairs), MapInsert(map, Head(pairs)[1], Head(pairs)[2]))

\* the form encode_uri builds for the phase and the store it leaves are
\* those of the descriptor and of the handle
AgreesWithEncodeUri(e, out, after) ==
    /\ e.res.ok
    /\ e.store = after
    /\ out.params = FormMapOf(e.res.val.pairs, << >>)

\* C26: every path that builds a DeviceCode request agrees with the grant
\* table: the descriptor access_token() and refresh_token() of a DeviceCode
\* handle return holds the form encode_uri builds for the phase, which for
\* the RefreshToken phase is the AccessToken-phase parameter set with
\* grant_type = "refresh_token".
C26_DeviceCodePathsAgree ==
    (/\ result.op \in {"access_token", "refresh_token"}
     /\ result.arg.grant = "DeviceCode"
     /\ result.out.error = None)
        => AgreesWithEncodeUri(encode_uri(result.arg.oauth, "DeviceCode", PhaseOf(result.op)),
                               result.out, handle.oauth)

(***************************************************************************)
(* The query encode_query builds from the caller's lists, checked under     *)
(* SpecQuery.                                                               *)
(***************************************************************************)
\* a required field is absent: scope when the scope set is empty, any other
\* field when the store has no entry for it
Absent(s, p) == IF p = "Scope" THEN s.scopes = {} ELSE get(s, p) = None

\* the first absent field of a list in which one is absent
FirstAbsent(s, fields) ==
    fields[CHOOSE i \in 1..Len(fields) :
              /\ Absent(s, fields[i])
              /\ \A j \in 1..(i - 1) : ~Absent(s, fields[j])]

\* an optional field is present: as for a required field, and scope also
\* when the scope set is empty and the store has a literal scope entry
PresentOptional(s, p) == ~Absent(s, p) \/ IsSome(get(s, p))

\* the pair of a field: the joined scope set, or the store's entry
PairOf(s, p) ==
    IF p = "Scope" /\ s.scopes # {} THEN <<"scope", join_scopes(s, " ")>>
    ELSE <<alias(p), Unwrap(get(s, p))>>

PairsInListOrder(s, fields) == [i \in 1..Len(fields) |-> PairOf(s, fields[i])]

\* what encode_query answers when these optional fields count as present
QueryAnswer(present, required_fields, s, out) ==
    IF \E i \in 1..Len(required_fields) : Absent(s, required_fields[i])
    THEN /\ ~out.ok
         /\ out.err = required(alias(FirstAbsent(s, required_fields)))
    ELSE /\ out.ok
         /\ out.pairs = PairsInListOrder(s, required_fields) \o PairsInListOrder(s, present)

\* C27 as stated: encode_query(optional, required) returns the
\* missing-required-field error naming the first absent field of the
\* required list (scope is absent exactly when the scope set is empty);
\* otherwise it succeeds and the encoder holds one pair per required field
\* in list order, then one pair per present optional field in list order,
\* absent optional fields skipped.
C27_AbsentOptionalIsSkipped ==
    result.op = "encode_query" =>
        QueryAnswer(SelectSeq(result.arg[1], LAMBDA p : ~Absent(result.arg[3], p)),
                    result.arg[2], result.arg[3], result.out)

\* C27 as amended: as stated, except that an optional scope is skipped only
\* when the scope set is empty and the store has no literal scope entry;
\* with an empty scope set and such an entry its pair carries the entry.
C27_RequiredThenOptional ==
    result.op = "encode_query" =>
        QueryAnswer(SelectSeq(result.arg[1], LAMBDA p : PresentOptional(result.arg[3], p)),
                    result.arg[2], result.arg[3], result.out)

\* the scope set is empty, the store holds a literal scope entry, and the
\* optional scope is encoded from it after the required field
C27_Witness ==
    /\ result.op = "encode_query"
    /\ result.arg[1] = <<"Scope", "ResponseType">>
    /\ result.arg[3].scopes = {}
    /\ get(result.arg[3], "ResponseType") = None
    /\ IsSome(get(result.arg[3], "Scope"))
    /\ result.out.ok
    /\ result.out.pairs = << <<"client_id", Unwrap(get(result.arg[3], "ClientId"))>>,
                             <<"scope", Unwrap(get(result.arg[3], "Scope"))>> >>

(***************************************************************************)
(* The blocking and the non-blocking handles, checked under SpecPair.       *)
(***************************************************************************)
PairTokenOps == {"pair.access_token", "pair.refresh_token"}

\* two descriptors with the same target URI, form map and captured error
SameDescriptor(b, a) ==
    /\ b.uri = a.uri
    /\ b.params = a.params
    /\ b.error = a.error

\* two URL results that differ at most in the order of the query pairs
SameUrlUpToOrder(b, a) ==
    /\ b.ok = a.ok
    /\ ~b.ok => b.err = a.err
    /\ b.ok => /\ b.val.base = a.val.base
               /\ Len(b.val.query) = Len(a.val.query)
               /\ Elements(b.val.query) = Elements(a.val.query)

StoresEqual == HandleAt(1).oauth = HandleAt(2).oauth

ImplicitFirstCall ==
    /\ result.op = "browser_authorization"
    /\ \/ result.arg.grant = "TokenFlow"
       \/ result.arg.grant = "Implicit" /\ result.arg.oauth.scopes # {}
    /\ contains_key(result.arg.oauth, "authorization_url")
    /\ ~contains_key(result.arg.oauth, "response_type")

\* C29: browser_authorization() on an ImplicitGrant handle is idempotent: on
\* a TokenFlow handle (or an Implicit handle with a non-empty scope set)
\* whose store has no response_type, the first call returns a URI that
\* carries the injected response_type=token, and every later call returns
\* the same URI.
C29_BrowserAuthorizationIsIdempotent ==
    ImplicitFirstCall =>
        /\ result.out.error = None
        /\ <<"response_type", "token">> \in Elements(result.out.uri.query)
        /\ \A order \in ImplicitOrders(handle) :
              implicit_browser_authorization(handle, order).req = result.out

(***************************************************************************)
(* The refresh token of a replaced token response, checked under            *)
(* SpecStored.                                                              *)
(***************************************************************************)
\* what get_refresh_token answers from the token response stored last
FromStoredToken(s) ==
    IF IsSome(StoredTokenRefresh(s)) THEN Ok(Unwrap(StoredTokenRefresh(s)))
    ELSE Err(error_from("RefreshToken"))

\* C30: get_refresh_token() never returns the refresh token of a token
\* response that has been replaced: after any sequence of
\* access_token(token) calls on a serializer whose refresh_token setter was
\* never called, it returns the refresh_token of the token response stored
\* last, and an error when that response has none.
C30_NoStaleRefreshToken ==
    (result.op = "get_refresh_token" /\ IsSome(get_access_token(result.arg[1])))
        => result.out = FromStoredToken(result.arg[1])

====
